---------------------------- MODULE Spec2Model ----------------------------
(***************************************************************************)
(* OLog: a model of the staging buffer (src/src/buffers.{h,cc}), the log   *)
(* assembler (src/src/log_info.{h,cc}) and the consumer loop               *)
(* (src/src/logger.{h,cc}).                                                *)
(*                                                                         *)
(* Pointers into a buffer are modelled as offsets from storage.get().      *)
(* size_t arithmetic is kept modulo SizeMod.                               *)
(***************************************************************************)
EXTENDS Integers, Sequences, FiniteSets, TLC

(***************************************************************************)
(* Bounds of the model.                                                    *)
(***************************************************************************)
\* capacity_ of the modelled staging buffer (config::STORAGE_BUFFER_SIZE scaled down)
Capacity == 5
\* largest num_bytes a producer asks for
MaxRecordSize == 3
\* number of Log calls one producer makes
MaxRecords == 4

\* size_t is an unsigned type: differences wrap around modulo SizeMod
SizeMod == 65536

VARIABLES
    \* ---- StagingBuffer fields (buffers.h:166-193)
    producer_pos,          \* char* volatile producer_pos_
    end_of_data,           \* char* volatile end_of_data_
    consumer_pos,          \* char* volatile consumer_pos_
    available_bytes,       \* size_t available_bytes_
    should_be_destructed,  \* bool should_be_destructed_
    storage,               \* the bytes of storage: offset -> cell
    \* ---- the producer thread (olog.h Log, buffers.h reserveProducerSpace)
    ppc,                   \* where the producer is
    num_bytes,             \* num_bytes of the reservation in progress
    blocking,              \* blocking of the reservation in progress
    cached_consumer_pos,   \* local of reserveProducerSpaceInternal
    \* ---- the consumer thread (logger.cc consumerThreadMain, buffers.cc peek)
    cpc,                   \* where the consumer is
    cached_producer_pos,   \* local of peek
    peek_bytes,            \* peek's available_bytes out-parameter
    read_pos,              \* read_pos of consumerThreadMain
    bytes_consumed,        \* bytes_consumed of consumerThreadMain
    info_size,             \* dynamic_log_info->info_size_ as read by the consumer
    \* ---- history
    committed,             \* records committed by finishReservation, in order
    consumed,              \* records read by the consumer, in order
    unconsumed,            \* offsets holding committed, not yet consumed bytes
    handed_null            \* the last reservation returned nullptr

bufVars == <<producer_pos, end_of_data, consumer_pos, available_bytes,
             should_be_destructed, storage, ppc, num_bytes, blocking,
             cached_consumer_pos, cpc, cached_producer_pos, peek_bytes,
             read_pos, bytes_consumed, info_size, committed, consumed,
             unconsumed, handed_null>>

VARIABLES
    \* ---- the producer threads (olog.h Log, logger.h ReserveAlloc/FinishAlloc)
    threads,               \* per thread: position, thread_local staging_buffer_
    log_ids,               \* per call site: its static int log_id
    \* ---- the heap: the StagingBuffer objects made by ensureBufferIsAllocated
    heap,
    \* ---- Logger fields (logger.h:223-273)
    logger,
    halves,                \* the two char[DOUBLE_BUFFER_SIZE] arrays
    double_buffer_size,    \* config::DOUBLE_BUFFER_SIZE
    ring,                  \* the io_uring instance, kernel side
    main,                  \* where the thread that destroys the Logger is
    \* ---- the consumer thread (logger.cc consumerThreadMain)
    la,                    \* LogAssembler log_assembler
    loop,                  \* the locals of consumerThreadMain
    \* ---- history
    obs,
    \* ---- the format analysis of one OLOG call site (olog.h:102-149)
    format_str,            \* format_str[], with its terminating NUL
    analysis,              \* what the analyzer functions have returned
    \* ---- the function-local statics of olog::Log (olog.h:33)
    param_sizes            \* per instantiation: static std::array param_sizes

\* the variables of the call sites: the format analysis and the statics
fmtVars == <<format_str, analysis, param_sizes>>

logVars == <<threads, log_ids, heap, logger, halves, double_buffer_size,
             ring, main, la, loop, obs, fmtVars>>

\* no format string is under analysis
NoAnalysis == format_str = <<>> /\ analysis = <<>>

\* no format string is under analysis and no call site exists
NoFormat == NoAnalysis /\ param_sizes = <<>>

vars == <<bufVars, logVars>>

\* the variables of the Logger, its threads and the history
runVars == <<threads, log_ids, heap, logger, halves, double_buffer_size,
             ring, main, la, loop, obs>>

\* no Logger exists and no thread logs
NoRun ==
    /\ threads = <<>>
    /\ log_ids = <<>>
    /\ heap = <<>>
    /\ logger = <<>>
    /\ halves = <<>>
    /\ double_buffer_size = 0
    /\ ring = <<>>
    /\ main = "none"
    /\ la = <<>>
    /\ loop = <<>>
    /\ obs = <<>>

\* no Logger exists: the staging buffer is driven on its own
NoLogger == NoRun /\ NoFormat

(***************************************************************************)
(* Helpers.                                                                *)
(***************************************************************************)
\* a - b in size_t
SizeSub(a, b) == (a - b + SizeMod) % SizeMod

\* an uninitialised byte of storage
NoCell == <<0, 0, 0>>

\* the bytes of record number k of size n: byte 0 stands for the
\* DynamicLogInfo header, which carries info_size_ = n
RecordBytes(k, n) == [i \in 1..n |-> <<k, i - 1, n>>]

\* the bytes of storage at [pos, pos + n), as the consumer reads them;
\* a byte past the end of storage is not a byte of this buffer
ReadBytes(pos, n) ==
    [i \in 1..n |-> IF pos + i - 1 < Capacity THEN storage[pos + i - 1]
                                             ELSE <<-1, -1, -1>>]

IsPrefix(s, t) == /\ Len(s) <= Len(t)
                  /\ \A i \in 1..Len(s) : s[i] = t[i]

Region(pos, n) == pos .. (pos + n - 1)

(***************************************************************************)
(* StagingBuffer::StagingBuffer                                            *)
(***************************************************************************)
BufInit ==
    /\ producer_pos = 0
    /\ end_of_data = Capacity
    /\ consumer_pos = 0
    /\ available_bytes = Capacity
    /\ should_be_destructed = FALSE
    /\ storage = [i \in 0..(Capacity - 1) |-> NoCell]
    /\ ppc = "idle"
    /\ num_bytes = 0
    /\ blocking = TRUE
    /\ cached_consumer_pos = 0
    /\ cpc = "idle"
    /\ cached_producer_pos = 0
    /\ peek_bytes = 0
    /\ read_pos = 0
    /\ bytes_consumed = 0
    /\ info_size = 0
    /\ committed = <<>>
    /\ consumed = <<>>
    /\ unconsumed = {}
    /\ handed_null = FALSE

(***************************************************************************)
(* StagingBuffer::shouldBeDestructed                                       *)
(***************************************************************************)
ShouldBeDestructed == should_be_destructed /\ consumer_pos = producer_pos

(***************************************************************************)
(* The producer.                                                           *)
(***************************************************************************)
producerLocals == <<ppc, num_bytes, blocking, cached_consumer_pos>>
consumerLocals == <<cpc, cached_producer_pos, peek_bytes, read_pos,
                    bytes_consumed, info_size>>
history == <<committed, consumed, unconsumed>>

\* reserveProducerSpace(n, b): the fast path, else into the internal loop
ReserveProducerSpace ==
    /\ ppc = "idle"
    /\ Len(committed) < MaxRecords
    /\ \E n \in 1..MaxRecordSize, b \in BOOLEAN :
        /\ (n < Capacity \/ ~b)                 \* the assert of line 96
        /\ num_bytes' = n
        /\ blocking' = b
        /\ ppc' = IF n < available_bytes THEN "write" ELSE "loop"
    /\ handed_null' = FALSE
    /\ UNCHANGED <<producer_pos, end_of_data, consumer_pos, available_bytes,
                   should_be_destructed, storage, cached_consumer_pos,
                   consumerLocals, history>>
    /\ UNCHANGED logVars

\* where an iteration of the while loop of reserveProducerSpaceInternal goes
\* once available_bytes_ has been recomputed to `avail`
EndOfIteration(avail) ==
    IF ~blocking /\ avail <= num_bytes THEN "null" ELSE "loop"

\* while (available_bytes_ <= num_bytes) { cached_consumer_pos = consumer_pos_;
ReserveLoop ==
    /\ ppc = "loop"
    /\ IF available_bytes <= num_bytes
          THEN /\ cached_consumer_pos' = consumer_pos
               /\ ppc' = "branch"
          ELSE /\ ppc' = "write"
               /\ UNCHANGED cached_consumer_pos
    /\ UNCHANGED <<producer_pos, end_of_data, consumer_pos, available_bytes,
                   should_be_destructed, storage, num_bytes, blocking,
                   consumerLocals, history, handed_null>>
    /\ UNCHANGED logVars

\* if (cached_consumer_pos <= producer_pos_) { available_bytes_ = end_of_storage
\* - producer_pos_; if (available_bytes_ > num_bytes) return producer_pos_;
ReserveBranch ==
    /\ ppc = "branch"
    /\ IF cached_consumer_pos <= producer_pos
          THEN /\ available_bytes' = SizeSub(Capacity, producer_pos)
               /\ ppc' = IF available_bytes' > num_bytes THEN "write"
                                                         ELSE "eod"
          ELSE /\ ppc' = "else"
               /\ UNCHANGED available_bytes
    /\ UNCHANGED <<producer_pos, end_of_data, consumer_pos,
                   should_be_destructed, storage, num_bytes, blocking,
                   cached_consumer_pos, consumerLocals, history, handed_null>>
    /\ UNCHANGED logVars

\* the step of line 44 without its assignment
ReservePublishEndSkipped ==
    /\ ppc = "eod"
    /\ ppc' = IF cached_consumer_pos # 0 THEN "wrap"
                                         ELSE EndOfIteration(available_bytes)
    /\ UNCHANGED <<producer_pos, end_of_data, consumer_pos, available_bytes,
                   should_be_destructed, storage, num_bytes, blocking,
                   cached_consumer_pos, consumerLocals, history, handed_null>>
    /\ UNCHANGED logVars

\* end_of_data_ = producer_pos_;
ReservePublishEnd ==
    /\ ppc = "eod"
    /\ end_of_data' = producer_pos
    /\ ppc' = IF cached_consumer_pos # 0 THEN "wrap"
                                         ELSE EndOfIteration(available_bytes)
    /\ UNCHANGED <<producer_pos, consumer_pos, available_bytes,
                   should_be_destructed, storage, num_bytes, blocking,
                   cached_consumer_pos, consumerLocals, history, handed_null>>
    /\ UNCHANGED logVars

\* producer_pos_ = storage.get(); available_bytes_ = cached_consumer_pos -
\* producer_pos_;
ReserveWrap ==
    /\ ppc = "wrap"
    /\ producer_pos' = 0
    /\ available_bytes' = SizeSub(cached_consumer_pos, 0)
    /\ ppc' = EndOfIteration(available_bytes')
    /\ UNCHANGED <<end_of_data, consumer_pos, should_be_destructed, storage,
                   num_bytes, blocking, cached_consumer_pos, consumerLocals,
                   history, handed_null>>
    /\ UNCHANGED logVars

\* the value line 51 gives available_bytes_
ElseAvailable == SizeSub(cached_consumer_pos, consumer_pos)

\* } else { available_bytes_ = cached_consumer_pos - consumer_pos_; }
ReserveElse ==
    /\ ppc = "else"
    /\ available_bytes' = ElseAvailable
    /\ ppc' = EndOfIteration(available_bytes')
    /\ UNCHANGED <<producer_pos, end_of_data, consumer_pos,
                   should_be_destructed, storage, num_bytes, blocking,
                   cached_consumer_pos, consumerLocals, history, handed_null>>
    /\ UNCHANGED logVars

\* return nullptr: the caller drops the record
ReserveNull ==
    /\ ppc = "null"
    /\ ppc' = "idle"
    /\ handed_null' = TRUE
    /\ UNCHANGED <<producer_pos, end_of_data, consumer_pos, available_bytes,
                   should_be_destructed, storage, num_bytes, blocking,
                   cached_consumer_pos, consumerLocals, history>>
    /\ UNCHANGED logVars

\* olog.h:64-73: the producer writes the record at the pointer it was handed
WriteRecord ==
    /\ ppc = "write"
    /\ LET rec == RecordBytes(Len(committed) + 1, num_bytes)
       IN storage' = [i \in 0..(Capacity - 1) |->
                        IF i \in Region(producer_pos, num_bytes)
                           THEN rec[i - producer_pos + 1]
                           ELSE storage[i]]
    /\ ppc' = "finish"
    /\ UNCHANGED <<producer_pos, end_of_data, consumer_pos, available_bytes,
                   should_be_destructed, num_bytes, blocking,
                   cached_consumer_pos, consumerLocals, history, handed_null>>
    /\ UNCHANGED logVars

\* finishReservation(num_bytes)
FinishReservation ==
    /\ ppc = "finish"
    /\ available_bytes' = SizeSub(available_bytes, num_bytes)
    /\ producer_pos' = producer_pos + num_bytes
    /\ committed' = Append(committed,
                           RecordBytes(Len(committed) + 1, num_bytes))
    /\ unconsumed' = unconsumed \cup Region(producer_pos, num_bytes)
    /\ ppc' = "idle"
    /\ UNCHANGED <<end_of_data, consumer_pos, should_be_destructed, storage,
                   num_bytes, blocking, cached_consumer_pos, consumerLocals,
                   consumed, handed_null>>
    /\ UNCHANGED logVars

\* DestructGuard::~DestructGuard at the exit of the producer thread
DestructGuardEnd ==
    /\ ppc = "idle"
    /\ should_be_destructed' = TRUE
    /\ ppc' = "exited"
    /\ UNCHANGED <<producer_pos, end_of_data, consumer_pos, available_bytes,
                   storage, num_bytes, blocking, cached_consumer_pos,
                   consumerLocals, history, handed_null>>
    /\ UNCHANGED logVars

(***************************************************************************)
(* The consumer: consumerThreadMain on this buffer.                        *)
(***************************************************************************)
producerSide == <<producer_pos, end_of_data, available_bytes,
                  should_be_destructed, storage, producerLocals, committed,
                  handed_null>>

\* peek: char* cached_producer_pos = producer_pos_;
PeekRead ==
    /\ cpc = "idle"
    /\ cached_producer_pos' = producer_pos
    /\ cpc' = IF cached_producer_pos' < consumer_pos THEN "peek_end"
                                                     ELSE "peek_ret"
    /\ UNCHANGED <<producerSide, consumer_pos, peek_bytes, read_pos,
                   bytes_consumed, info_size, consumed, unconsumed>>
    /\ UNCHANGED logVars

\* available_bytes = end_of_data_ - consumer_pos_; if (available_bytes > 0)
\* return consumer_pos_;
PeekEndOfData ==
    /\ cpc = "peek_end"
    /\ peek_bytes' = SizeSub(end_of_data, consumer_pos)
    /\ IF peek_bytes' > 0
          THEN /\ cpc' = "peeked"
               /\ read_pos' = consumer_pos
          ELSE /\ cpc' = "peek_reset"
               /\ UNCHANGED read_pos
    /\ UNCHANGED <<producerSide, consumer_pos, cached_producer_pos,
                   bytes_consumed, info_size, consumed, unconsumed>>
    /\ UNCHANGED logVars

\* consumer_pos_ = storage.get();
PeekReset ==
    /\ cpc = "peek_reset"
    /\ consumer_pos' = 0
    /\ cpc' = "peek_ret"
    /\ UNCHANGED <<producerSide, cached_producer_pos, peek_bytes, read_pos,
                   bytes_consumed, info_size, consumed, unconsumed>>
    /\ UNCHANGED logVars

\* available_bytes = cached_producer_pos - consumer_pos_; return consumer_pos_;
PeekReturn ==
    /\ cpc = "peek_ret"
    /\ peek_bytes' = SizeSub(cached_producer_pos, consumer_pos)
    /\ read_pos' = consumer_pos
    /\ cpc' = "peeked"
    /\ UNCHANGED <<producerSide, consumer_pos, cached_producer_pos,
                   bytes_consumed, info_size, consumed, unconsumed>>
    /\ UNCHANGED logVars

\* if (peek_bytes > 0) { bytes_consumed = 0; ... } else { shouldBeDestructed }
AfterPeek ==
    /\ cpc = "peeked"
    /\ bytes_consumed' = 0
    /\ cpc' = IF peek_bytes > 0 THEN "record"
              ELSE IF ShouldBeDestructed THEN "deleted" ELSE "idle"
    /\ UNCHANGED <<producerSide, consumer_pos, cached_producer_pos,
                   peek_bytes, read_pos, info_size, consumed, unconsumed>>
    /\ UNCHANGED logVars

\* while (bytes_consumed < peek_bytes) { the record at read_pos is decoded
ReadRecord ==
    /\ cpc = "record"
    /\ IF bytes_consumed < peek_bytes
          THEN /\ read_pos < Capacity
               /\ Len(consumed) <= MaxRecords
               /\ info_size' = storage[read_pos][3]
               /\ consumed' = Append(consumed, ReadBytes(read_pos, info_size'))
               /\ cpc' = "consume"
          ELSE /\ cpc' = "idle"
               /\ UNCHANGED <<info_size, consumed>>
    /\ UNCHANGED <<producerSide, consumer_pos, cached_producer_pos,
                   peek_bytes, read_pos, bytes_consumed, unconsumed>>
    /\ UNCHANGED logVars

\* bytes_consumed += info_size_; read_pos += info_size_; consume(info_size_);
Consume ==
    /\ cpc = "consume"
    /\ bytes_consumed' = bytes_consumed + info_size
    /\ read_pos' = read_pos + info_size
    /\ consumer_pos' = consumer_pos + info_size
    /\ unconsumed' = unconsumed \ Region(consumer_pos, info_size)
    /\ cpc' = "record"
    /\ UNCHANGED <<producerSide, cached_producer_pos, peek_bytes, info_size,
                   consumed>>
    /\ UNCHANGED logVars

BufNext ==
    \/ ReserveProducerSpace
    \/ ReserveLoop
    \/ ReserveBranch
    \/ ReservePublishEnd
    \/ ReserveWrap
    \/ ReserveElse
    \/ ReserveNull
    \/ WriteRecord
    \/ FinishReservation
    \/ DestructGuardEnd
    \/ PeekRead
    \/ PeekEndOfData
    \/ PeekReset
    \/ PeekReturn
    \/ AfterPeek
    \/ ReadRecord
    \/ Consume

Init == BufInit /\ NoLogger
Next == BufNext
Spec == Init /\ [][Next]_vars

(***************************************************************************)
(* Claims about the staging buffer, checked under Spec.                    *)
(***************************************************************************)
\* the producer holds a pointer returned by reserveProducerSpace
Handed == ppc \in {"write", "finish"}

\* C1: the sequence of records the consumer reads from the staging buffer is
\* (a prefix of, and in the end) exactly the sequence of records the producer
\* committed, in commit order and byte for byte.
C1_ReadInCommitOrder == IsPrefix(consumed, committed)

\* C2: the region the producer is handed or commits never overlaps committed,
\* not yet consumed bytes, never runs past the end of storage, never reaches
\* consumer_pos from behind, and available_bytes never exceeds the capacity.
C2_ProducerNeverCrossesConsumer ==
    /\ Handed => Region(producer_pos, num_bytes) \cap unconsumed = {}
    /\ Handed => producer_pos + num_bytes <= Capacity
    /\ (Handed /\ producer_pos < consumer_pos)
          => producer_pos + num_bytes < consumer_pos
    /\ available_bytes <= Capacity

\* C9: shouldBeDestructed holds exactly when the DestructGuard has ended and
\* consumer_pos = producer_pos, and whenever it holds no committed byte is
\* still unconsumed.
C9_DestroyableIffGuardEndedAndEmpty ==
    /\ ShouldBeDestructed <=> (ppc = "exited" /\ consumer_pos = producer_pos)
    /\ ShouldBeDestructed => (unconsumed = {} /\ Len(consumed) = Len(committed))


(***************************************************************************)
(* Records: call sites, arguments and their encoding (olog.h, log_info.h). *)
(* A char is its code; a string is a sequence of codes without the NUL.    *)
(***************************************************************************)
\* sizeof(DynamicLogInfo): log_id_, info_size_, ms_timestamp_
HeaderSize == 24
\* sizeof(int), sizeof(size_t)
SizeofInt == 4
SizeofSizeT == 8
\* sizeof(void*)
SizeofPointer == 8

\* enum class ParamType
DYNAMIC_WIDTH == -5
DYNAMIC_PRECISION == -4
NON_STRING == -3
STRING_WITH_DYNAMIC_PRECISION == -2
STRING_WITH_NO_PRECISION == -1
ParamType_STRING == 0

UNREGISTERED_LOG_ID == -1

Min(a, b) == IF a < b THEN a ELSE b
Max(a, b) == IF a > b THEN a ELSE b

\* std::to_string of a value below 100, as char codes
StdToString(v) == IF v < 10 THEN <<48 + v>> ELSE <<48 + (v \div 10), 48 + (v % 10)>>

\* &param_sizes of olog::Log<_FormatLength, _NumParams, _NumConversions,
\* _Args...>: one static array for each instantiation of the template
LogInstance(FormatLength, NumParams, NumConversions, Args) ==
    <<FormatLength, NumParams, NumConversions, Args>>

\* the StaticLogInfo the OLOG macro builds at each call site of the modelled
\* program; format_str_ and format_len_ include the terminating NUL:
\*   1: f.c:7   OLOG(INFO,  "a%db",  int)          args <<v>>
\*   2: f.c:9   OLOG(ERROR, "%.*s|", int, char*)   args <<p>>, s
\*   3: f.c:12  OLOG(WARNING, "hi")
\*   4: f.c:20  OLOG(NONE, "x")
\*   5: f.c:30  OLOG(INFO, "5%%")
\*   6: f.c:31  OLOG(INFO, "%.0s|", char*)        args s
\*   7: f.c:32  OLOG(INFO, "%p", void*)           args <<address>>
\*   8: f.c:40  OLOG(INFO, "%.*d", int, int)      args precision, v
\*   9: f.c:50  OLOG(INFO, "%s%d", char*, int)    args s, v
\*  10: f.c:51  OLOG(INFO, "%p%d", char*, int)    args <<address>>, v
\* param_sizes_ is a pointer: the address of the static param_sizes of the
\* instantiation of olog::Log the call site calls (olog.h:33, 39).
CallSites ==
    << [filename_ |-> <<102, 46, 99>>, line_number_ |-> 7, log_level_ |-> 3,
        format_len_ |-> 5, num_conversions_ |-> 1, num_parameters_ |-> 1,
        format_str_ |-> <<97, 37, 100, 98, 0>>,
        format_fragments_ |-> << [conversion_type_ |-> "int_t",
                                  specifier_length_ |-> 2,
                                  format_pos_ |-> 1] >>,
        param_types_ |-> <<NON_STRING>>,
        param_sizes_ |-> LogInstance(5, 1, 1, <<"int">>)],
       [filename_ |-> <<102, 46, 99>>, line_number_ |-> 9, log_level_ |-> 1,
        format_len_ |-> 6, num_conversions_ |-> 1, num_parameters_ |-> 2,
        format_str_ |-> <<37, 46, 42, 115, 124, 0>>,
        format_fragments_ |-> << [conversion_type_ |-> "const_char_ptr_t",
                                  specifier_length_ |-> 4,
                                  format_pos_ |-> 0] >>,
        param_types_ |-> <<DYNAMIC_PRECISION, STRING_WITH_DYNAMIC_PRECISION>>,
        param_sizes_ |-> LogInstance(6, 2, 1, <<"int", "const char*">>)],
       [filename_ |-> <<102, 46, 99>>, line_number_ |-> 12, log_level_ |-> 2,
        format_len_ |-> 3, num_conversions_ |-> 0, num_parameters_ |-> 0,
        format_str_ |-> <<104, 105, 0>>,
        format_fragments_ |-> <<>>,
        param_types_ |-> <<>>,
        param_sizes_ |-> LogInstance(3, 0, 0, <<>>)],
       [filename_ |-> <<102, 46, 99>>, line_number_ |-> 20, log_level_ |-> 0,
        format_len_ |-> 2, num_conversions_ |-> 0, num_parameters_ |-> 0,
        format_str_ |-> <<120, 0>>,
        format_fragments_ |-> <<>>,
        param_types_ |-> <<>>,
        param_sizes_ |-> LogInstance(2, 0, 0, <<>>)],
       [filename_ |-> <<102, 46, 99>>, line_number_ |-> 30, log_level_ |-> 3,
        format_len_ |-> 4, num_conversions_ |-> 0, num_parameters_ |-> 0,
        format_str_ |-> <<53, 37, 37, 0>>,
        format_fragments_ |-> <<>>,
        param_types_ |-> <<>>,
        param_sizes_ |-> LogInstance(4, 0, 0, <<>>)],
       [filename_ |-> <<102, 46, 99>>, line_number_ |-> 31, log_level_ |-> 3,
        format_len_ |-> 6, num_conversions_ |-> 1, num_parameters_ |-> 1,
        format_str_ |-> <<37, 46, 48, 115, 124, 0>>,
        format_fragments_ |-> << [conversion_type_ |-> "const_char_ptr_t",
                                  specifier_length_ |-> 4,
                                  format_pos_ |-> 0] >>,
        param_types_ |-> <<ParamType_STRING>>,
        param_sizes_ |-> LogInstance(6, 1, 1, <<"const char*">>)],
       [filename_ |-> <<102, 46, 99>>, line_number_ |-> 32, log_level_ |-> 3,
        format_len_ |-> 3, num_conversions_ |-> 1, num_parameters_ |-> 1,
        format_str_ |-> <<37, 112, 0>>,
        format_fragments_ |-> << [conversion_type_ |-> "const_void_ptr_t",
                                  specifier_length_ |-> 2,
                                  format_pos_ |-> 0] >>,
        param_types_ |-> <<NON_STRING>>,
        param_sizes_ |-> LogInstance(3, 1, 1, <<"const void*">>)],
       [filename_ |-> <<102, 46, 99>>, line_number_ |-> 40, log_level_ |-> 3,
        format_len_ |-> 5, num_conversions_ |-> 1, num_parameters_ |-> 2,
        format_str_ |-> <<37, 46, 42, 100, 0>>,
        format_fragments_ |-> << [conversion_type_ |-> "int_t",
                                  specifier_length_ |-> 4,
                                  format_pos_ |-> 0] >>,
        param_types_ |-> <<DYNAMIC_PRECISION, NON_STRING>>,
        param_sizes_ |-> LogInstance(5, 2, 1, <<"int", "int">>)],
       [filename_ |-> <<102, 46, 99>>, line_number_ |-> 50, log_level_ |-> 3,
        format_len_ |-> 5, num_conversions_ |-> 2, num_parameters_ |-> 2,
        format_str_ |-> <<37, 115, 37, 100, 0>>,
        format_fragments_ |-> << [conversion_type_ |-> "const_char_ptr_t",
                                  specifier_length_ |-> 2,
                                  format_pos_ |-> 0],
                                 [conversion_type_ |-> "int_t",
                                  specifier_length_ |-> 2,
                                  format_pos_ |-> 2] >>,
        param_types_ |-> <<STRING_WITH_NO_PRECISION, NON_STRING>>,
        param_sizes_ |-> LogInstance(5, 2, 2, <<"const char*", "int">>)],
       [filename_ |-> <<102, 46, 99>>, line_number_ |-> 51, log_level_ |-> 3,
        format_len_ |-> 5, num_conversions_ |-> 2, num_parameters_ |-> 2,
        format_str_ |-> <<37, 112, 37, 100, 0>>,
        format_fragments_ |-> << [conversion_type_ |-> "const_void_ptr_t",
                                  specifier_length_ |-> 2,
                                  format_pos_ |-> 0],
                                 [conversion_type_ |-> "int_t",
                                  specifier_length_ |-> 2,
                                  format_pos_ |-> 2] >>,
        param_types_ |-> <<NON_STRING, NON_STRING>>,
        param_sizes_ |-> LogInstance(5, 2, 2, <<"const char*", "int">>)] >>

\* the C++ types of the arguments passed at each call site
ArgTypes ==
    << <<"int">>, <<"int", "const char*">>, <<>>, <<>>, <<>>,
       <<"const char*">>, <<"const void*">>, <<"int", "int">>,
       <<"const char*", "int">>, <<"const char*", "int">> >>

\* sizeof(_Tp)
Sizeof(type) == IF type = "int" THEN SizeofInt ELSE SizeofPointer

\* the types the string overloads of GetParamSize, GetArgSize and
\* StoreArgument are enabled for
IsStringType(type) == type = "const char*"

\* the argument packs the modelled program passes at each call site; every
\* argument is a sequence of codes, an int v being <<v>>
ArgPacks ==
    << { <<<<7>>>>, <<<<42>>>> },
       { <<<<0>>, <<120, 121>>>>, <<<<1>>, <<120, 121>>>>, <<<<5>>, <<120, 121>>>> },
       { <<>> },
       { <<>> },
       { <<>> },
       { <<<<120, 121>>>> },
       { <<<<4660>>>> },
       { <<<<0>>, <<0>>>>, <<<<1>>, <<7>>>> },
       { <<<<120, 121>>, <<7>>>> },
       { <<<<4660>>, <<7>>>> } >>

\* utils::GetMsSystemClockInterval() of the modelled runs
Timestamps == {1234}

\* memcpy of an integer below 65536 into n bytes (little endian)
StoreInt(v, n) ==
    [i \in 1..n |-> IF i = 1 THEN v % 256 ELSE IF i = 2 THEN (v \div 256) % 256 ELSE 0]

\* LoadArgument<int/size_t>(data + pos, n)
LoadInt(data, pos) == data[pos + 1] + 256 * data[pos + 2]

\* GetArgSize for a char string: the stored length, cut by the precision
StringSize(param_type, len, pre_precision) ==
    IF param_type >= ParamType_STRING /\ len > param_type THEN param_type
    ELSE IF param_type = STRING_WITH_DYNAMIC_PRECISION /\ len > pre_precision
         THEN pre_precision
    ELSE len

\* GetParamSize, GetParamSizes: the sizes Log() computes at the first
\* registration of a call site
GetParamSize(param_type, type) ==
    IF IsStringType(type)
       THEN IF param_type <= NON_STRING THEN SizeofPointer ELSE 0
       ELSE Sizeof(type)

GetParamSizes(param_types, types) ==
    [i \in 1..Len(types) |-> GetParamSize(param_types[i], types[i])]

\* the addresses of the static param_sizes arrays of the modelled program
ParamSizesArrays == {CallSites[cs].param_sizes_ : cs \in 1..Len(CallSites)}

\* the arrays at program start: static storage is zero-initialised
ZeroParamSizes == [k \in ParamSizesArrays |-> [i \in 1..k[2] |-> 0]]

\* olog.h:33-34 at call site cs: GetParamSizes fills the static array of the
\* instantiation, whatever an earlier call site has left in it
WriteParamSizes(sizes, cs) ==
    [sizes EXCEPT ![CallSites[cs].param_sizes_] =
                     GetParamSizes(CallSites[cs].param_types_, ArgTypes[cs])]

\* AsSizet of an integer
AsSizet(val) == val

\* a faulty GetArgSize that leaves the NUL of a string out of its size; C25
\* distinguishes it from the one of log_info.h:1345-1445
GetArgSizeWithoutNul(param_type, string_size, pre_precision, type, arg) ==
    IF IsStringType(type) /\ param_type > NON_STRING
       THEN LET n == StringSize(param_type, Len(arg), pre_precision)
            IN [size |-> n + SizeofSizeT, string_size |-> n,
                pre_precision |-> pre_precision]
       ELSE [size |-> Sizeof(type), string_size |-> string_size,
             pre_precision |-> IF param_type = DYNAMIC_PRECISION
                                  THEN AsSizet(arg[1]) ELSE pre_precision]

\* GetArgSize: the bytes the argument takes, with string_size and
\* pre_precision as it leaves them
GetArgSize(param_type, string_size, pre_precision, type, arg) ==
    IF IsStringType(type)
       THEN IF param_type <= NON_STRING
               THEN [size |-> SizeofPointer, string_size |-> string_size,
                     pre_precision |-> pre_precision]
               ELSE LET n == StringSize(param_type, Len(arg), pre_precision)
                    IN [size |-> n + SizeofSizeT + 1, string_size |-> n,
                        pre_precision |-> pre_precision]
       ELSE IF type = "const void*"
               THEN [size |-> SizeofPointer, string_size |-> string_size,
                     pre_precision |-> pre_precision]
       ELSE [size |-> Sizeof(type), string_size |-> string_size,
             pre_precision |-> IF param_type = DYNAMIC_PRECISION
                                  THEN AsSizet(arg[1]) ELSE pre_precision]

\* GetArgSizes returns GetArgSize(first) + GetArgSizes(rest): the two
\* operands of + are evaluated in either order, and the one evaluated
\* first is the one that leaves its pre_precision to the other
EvaluationOrders == {"first_then_rest", "rest_then_first"}

Indices(n, order) ==
    [k \in 1..n |-> IF order = "first_then_rest" THEN k ELSE n + 1 - k]

\* GetArgSize of the arguments todo, in that order; string_sizes[] of
\* olog.h:44 is read only where GetArgSize has written it
RECURSIVE SizeArguments(_, _, _, _, _)
SizeArguments(param_types, types, args, todo, r) ==
    IF todo = <<>> THEN r
    ELSE LET i == Head(todo)
             one == GetArgSize(param_types[i], r.string_sizes[i],
                               r.pre_precision, types[i], args[i])
         IN SizeArguments(param_types, types, args, Tail(todo),
                [size |-> r.size + one.size,
                 string_sizes |-> [r.string_sizes EXCEPT
                                     ![i] = one.string_size],
                 pre_precision |-> one.pre_precision])

GetArgSizes(param_types, types, args, order) ==
    SizeArguments(param_types, types, args, Indices(Len(args), order),
                  [size |-> 0, string_sizes |-> [i \in 1..Len(args) |-> 0],
                   pre_precision |-> 0])

\* the outcomes of GetArgSizes at call site cs: [size, string_sizes]
ArgSizes(cs, args) ==
    { [size |-> r.size, string_sizes |-> r.string_sizes] :
        r \in { GetArgSizes(CallSites[cs].param_types_, ArgTypes[cs], args,
                            order) : order \in EvaluationOrders } }

\* StoreArgument: the bytes of one argument
StoreArgument(param_type, string_size, type, arg) ==
    IF IsStringType(type) /\ param_type > NON_STRING
       THEN StoreInt(string_size, SizeofSizeT)
            \o SubSeq(arg, 1, string_size) \o <<0>>
       ELSE StoreInt(arg[1], Sizeof(type))

\* StoreArguments: the bytes of arg_data for arguments i..
RECURSIVE StoreArguments(_, _, _, _, _)
StoreArguments(param_types, string_sizes, types, args, i) ==
    IF i > Len(args) THEN <<>>
    ELSE StoreArgument(param_types[i], string_sizes[i], types[i], args[i])
         \o StoreArguments(param_types, string_sizes, types, args, i + 1)

\* the calls at (call site, arguments) pairs, each with an outcome of its
\* GetArgSizes: <<call site, arguments, [size, string_sizes]>>
CallsAt(pairs) ==
    UNION { { <<call[1], call[2], r>> : r \in ArgSizes(call[1], call[2]) } :
              call \in pairs }

\* the DynamicLogInfo Log() writes into the reserved bytes: info_size_ is
\* alloc_size, the sum GetArgSizes returned and the header
MakeDynamicLogInfo(log_id, cs, args, arg_sizes, ts) ==
    [log_id_ |-> log_id,
     info_size_ |-> arg_sizes.size + HeaderSize,
     ms_timestamp_ |-> ts,
     arg_data |-> StoreArguments(CallSites[cs].param_types_,
                                 arg_sizes.string_sizes, ArgTypes[cs],
                                 args, 1)]

\* the C string at data + pos: the chars up to the NUL
RECURSIVE CString(_, _)
CString(data, pos) ==
    IF pos + 1 > Len(data) \/ data[pos + 1] = 0 THEN <<>>
    ELSE <<data[pos + 1]>> \o CString(data, pos + 1)

\* n spaces
Spaces(n) == [i \in 1..n |-> 32]

\* the lower-case hexadecimal digits of v
RECURSIVE ToHex(_)
ToHex(v) ==
    LET digit == IF v % 16 < 10 THEN 48 + (v % 16) ELSE 87 + (v % 16)
    IN IF v < 16 THEN <<digit>> ELSE ToHex(v \div 16) \o <<digit>>

\* what snprintf(fmt, [width,] [precision,] arg) produces for the conversions
\* of CallSites: %d (value >= 0), %s (a static precision of the specifier
\* is passed as precision) and %p
Snprintf(conversion_type, width, precision, value) ==
    LET text == IF conversion_type = "const_char_ptr_t"
                   THEN IF precision >= 0
                           THEN SubSeq(value, 1, Min(precision, Len(value)))
                           ELSE value
                   ELSE IF conversion_type = "const_void_ptr_t"
                           THEN IF value[1] = 0
                                   THEN <<40, 110, 105, 108, 41>>
                                   ELSE <<48, 120>> \o ToHex(value[1])
                   ELSE IF precision = 0 /\ value[1] = 0 THEN <<>>
                        ELSE StdToString(value[1])
    IN IF width > Len(text) THEN Spaces(width - Len(text)) \o text ELSE text


(***************************************************************************)
(* LogAssembler (log_info.h:200-377, log_info.cc:15-387).                  *)
(* write_pos_ is [half, off]: an offset into one of the two output arrays. *)
(* Indices are 0-based as in the source; sequences are read at index + 1.  *)
(***************************************************************************)
NullInfo == [none |-> TRUE]

\* LogAssembler::LogAssembler
NewLogAssembler ==
    [write_pos |-> [half |-> 0, off |-> 0],
     buffer_size |-> 0,
     writed_count |-> 0,
     bytes_last_writed |-> 0,
     conversion_index |-> 0,
     parameter_index |-> 0,
     format_index |-> 0,
     static_log_info |-> NullInfo,
     dynamic_log_info |-> NullInfo,
     args_read_pos |-> 0,
     timestamp_str |-> <<>>,
     filename_and_linenum |-> <<>>,
     producer_id |-> <<91, 48, 93, 58, 32>>,
     end_of_log |-> <<13, 10>>,
     is_full |-> FALSE,
     is_timestamp_writed |-> FALSE,
     is_filename_and_linenum_writed |-> FALSE,
     is_severity_writed |-> FALSE,
     is_producer_id_writed |-> FALSE,
     is_end_of_log_writed |-> FALSE]

\* setBuffer(write_pos, buffer_size)
SetBuffer(a, half, buffer_size) ==
    [a EXCEPT !.write_pos = [half |-> half, off |-> 0],
              !.buffer_size = buffer_size,
              !.writed_count = 0]

ResetIndices(a) ==
    [a EXCEPT !.conversion_index = 0, !.parameter_index = 0,
              !.format_index = 0]

ResetFlags(a) ==
    [a EXCEPT !.is_timestamp_writed = FALSE,
              !.is_filename_and_linenum_writed = FALSE,
              !.is_severity_writed = FALSE,
              !.is_producer_id_writed = FALSE,
              !.is_end_of_log_writed = FALSE]

LoadStaticInfo(a, static_info) ==
    ResetFlags(ResetIndices(
        [a EXCEPT !.static_log_info = static_info,
                  !.filename_and_linenum =
                      static_info.filename_ \o <<58>>
                      \o StdToString(static_info.line_number_) \o <<32>>]))

\* strftime("%Y-%m-%d %H:%M:%S.") of a time below ten seconds after the
\* epoch (UTC), then the three digits of the milliseconds and a space
TimestampStr(ms_timestamp) ==
    LET seconds == ms_timestamp \div 1000
        ms == ms_timestamp % 1000
    IN <<49, 57, 55, 48, 45, 48, 49, 45, 48, 49, 32, 48, 48, 58, 48, 48, 58,
         48, 48 + seconds, 46,
         48 + (ms \div 100), 48 + ((ms % 100) \div 10), 48 + (ms % 10), 32>>

LoadDynamicInfo(a, dynamic_info) ==
    ResetFlags(ResetIndices(
        [a EXCEPT !.dynamic_log_info = dynamic_info,
                  !.timestamp_str = TimestampStr(dynamic_info.ms_timestamp_),
                  !.args_read_pos = 0]))

SetProducerId(a, id) ==
    [a EXCEPT !.producer_id = <<91>> \o StdToString(id) \o <<93, 58, 32>>]

LoadLogInfo(a, static_info, dynamic_info, producer_id) ==
    ResetFlags(ResetIndices(
        SetProducerId(LoadDynamicInfo(LoadStaticInfo(a, static_info),
                                      dynamic_info),
                      producer_id)))

HasRemainingData(a) ==
    IF a.static_log_info = NullInfo \/ a.dynamic_log_info = NullInfo
       THEN FALSE
       ELSE ~a.is_end_of_log_writed

GetWritedBytes(a) == a.writed_count
GetFreeBytes(a) == a.buffer_size - a.writed_count
IsBufferFull(a) == a.is_full

\* the bytes of an output array after src is stored at offset off; the
\* arrays are value-initialised (0) and kept up to their highest written byte
Overwrite(mem, off, src) ==
    [i \in 1..Max(Len(mem), off + Len(src)) |->
        IF i > off /\ i <= off + Len(src) THEN src[i - off]
        ELSE IF i <= Len(mem) THEN mem[i] ELSE 0]

\* A write in progress: c.la the assembler, c.mem the array write_pos_ points
\* into, c.tmp the last try's result, c.piece the bytes that try stored,
\* c.returned that write() has returned; c.chunk (the bytes counted by
\* finishWriting) and c.exhausted (a try found the region too small) are
\* history.
FinishWriting(c) ==
    [c EXCEPT !.la.bytes_last_writed = @ + c.tmp,
              !.la.writed_count = @ + c.tmp,
              !.la.write_pos.off = @ + c.tmp,
              !.chunk = @ \o c.piece]

\* a string try that stores and counts the chars that fit
TryToWriteAStringToBufferInPart(c, src) ==
    IF c.la.is_full THEN [c EXCEPT !.tmp = 0, !.piece = <<>>]
    ELSE IF Len(src) >= GetFreeBytes(c.la)
         THEN [c EXCEPT !.la.is_full = TRUE,
                        !.mem = Overwrite(c.mem, c.la.write_pos.off,
                                          SubSeq(src, 1, GetFreeBytes(c.la) - 1)),
                        !.tmp = GetFreeBytes(c.la) - 1,
                        !.piece = SubSeq(src, 1, GetFreeBytes(c.la) - 1),
                        !.exhausted = TRUE]
    ELSE [c EXCEPT !.mem = Overwrite(c.mem, c.la.write_pos.off, src),
                   !.tmp = Len(src), !.piece = src]

TryToWriteAStringToBuffer(c, src) ==
    IF c.la.is_full THEN [c EXCEPT !.tmp = 0, !.piece = <<>>]
    ELSE IF Len(src) >= GetFreeBytes(c.la)
         THEN [c EXCEPT !.la.is_full = TRUE, !.tmp = 0, !.piece = <<>>,
                        !.exhausted = TRUE]
    ELSE [c EXCEPT !.mem = Overwrite(c.mem, c.la.write_pos.off, src),
                   !.tmp = Len(src), !.piece = src]

\* snprintf stores at most size - 1 chars and a NUL, and returns the length
\* of the whole text
TryToWriteArgToBuffer(c, conversion_type, width, precision, value) ==
    LET text == Snprintf(conversion_type, width, precision, value)
        free == GetFreeBytes(c.la)
        stored == IF free = 0 THEN <<>>
                  ELSE SubSeq(text, 1, Min(Len(text), free - 1)) \o <<0>>
        m == Overwrite(c.mem, c.la.write_pos.off, stored)
    IN IF Len(text) >= free
          THEN [c EXCEPT !.mem = m, !.la.is_full = TRUE, !.tmp = 0,
                         !.piece = <<>>, !.exhausted = TRUE]
          ELSE [c EXCEPT !.mem = m, !.tmp = Len(text), !.piece = text]

\* F(x) with x evaluated once: the statements of write() run one after the
\* other, each on the state the one before left
Then(x, F(_)) == CHOOSE r \in {F(v) : v \in {x}} : TRUE

\* "if (tmp == 0) return bytes_last_writed_; finishWriting(tmp);"
ReturnOnZero(c) ==
    IF c.tmp = 0 THEN [c EXCEPT !.returned = TRUE] ELSE FinishWriting(c)

\* one of the string phases of write(): try, return on 0, else count
StringPhase(c, src) ==
    Then(TryToWriteAStringToBuffer(c, src), ReturnOnZero)

SeverityStr ==
    << <<91, 60, 110, 111, 110, 101, 62, 93>>,
       <<91, 69, 82, 82, 79, 82, 93>>,
       <<91, 87, 65, 82, 78, 73, 78, 71, 93>>,
       <<91, 73, 78, 70, 79, 93>>,
       <<91, 68, 69, 66, 85, 71, 93>> >>


\* the locals of the else branch of lines 175-361 live in the context:
\* c.width, c.precision, c.arg_size and c.original, the saved positions
SaveOriginal(c) ==
    [c EXCEPT !.width = -1, !.precision = -1,
              !.original = [conversion_index |-> c.la.conversion_index,
                            parameter_index |-> c.la.parameter_index,
                            args_read_pos |-> c.la.args_read_pos]]

\* param_types_[parameter_index_], param_sizes_[parameter_index_]
ParamTypeAt(a) == a.static_log_info.param_types_[a.parameter_index + 1]
ParamSizeAt(a) ==
    param_sizes[a.static_log_info.param_sizes_][a.parameter_index + 1]

LoadDynamicWidth(c) ==
    IF ParamTypeAt(c.la) = DYNAMIC_WIDTH
       THEN [c EXCEPT !.width = LoadInt(c.la.dynamic_log_info.arg_data,
                                        c.la.args_read_pos),
                      !.la.args_read_pos = @ + ParamSizeAt(c.la),
                      !.la.parameter_index = @ + 1]
       ELSE c

LoadDynamicPrecision(c) ==
    IF ParamTypeAt(c.la) = DYNAMIC_PRECISION
       THEN [c EXCEPT !.precision = LoadInt(c.la.dynamic_log_info.arg_data,
                                            c.la.args_read_pos),
                      !.la.args_read_pos = @ + ParamSizeAt(c.la),
                      !.la.parameter_index = @ + 1]
       ELSE c

\* the address of arg_data of the record the assembler has loaded: it lies
\* in the storage of a staging buffer
ArgDataAddress == 8192

\* the value the switch over conversion_type_ hands to
\* tryToWriteArgToBuffer: the chars after the stored length for a char
\* string, args_read_pos_ itself for a generic pointer, and every other
\* type of CallSites is an integer
LoadArgument(a, conversion_type) ==
    IF conversion_type = "const_char_ptr_t"
       THEN CString(a.dynamic_log_info.arg_data,
                    a.args_read_pos + SizeofSizeT)
       ELSE IF conversion_type = "const_void_ptr_t"
               THEN <<ArgDataAddress + a.args_read_pos>>
       ELSE <<LoadInt(a.dynamic_log_info.arg_data, a.args_read_pos)>>

\* one case of the switch; c.value, the value handed over, is history
FormatArgument(c, conversion_type) ==
    LET value == LoadArgument(c.la, conversion_type)
        tried == [TryToWriteArgToBuffer(c, conversion_type, c.width,
                                        c.precision, value)
                  EXCEPT !.value = value]
    IN IF conversion_type = "const_char_ptr_t"
          THEN [tried EXCEPT
                  !.arg_size = LoadInt(c.la.dynamic_log_info.arg_data,
                                       c.la.args_read_pos),
                  !.la.args_read_pos =
                      c.la.args_read_pos + SizeofSizeT
                      + LoadInt(c.la.dynamic_log_info.arg_data,
                                c.la.args_read_pos) + 1]
          ELSE [tried EXCEPT !.arg_size = ParamSizeAt(c.la)]

\* a faulty end of the argument branch that rolls back whenever the try
\* stored nothing; C23 distinguishes it from the one of lines 348-360
FinishArgumentWhenStored(c, fragment) ==
    IF c.tmp = 0
       THEN [c EXCEPT !.la.conversion_index = c.original.conversion_index,
                      !.la.parameter_index = c.original.parameter_index,
                      !.la.args_read_pos = c.original.args_read_pos,
                      !.returned = TRUE]
       ELSE [FinishWriting(c) EXCEPT
                !.decoded = Append(@, c.value),
                !.la.args_read_pos = @ + ParamSizeAt(c.la),
                !.la.conversion_index = @ + 1,
                !.la.parameter_index = @ + 1,
                !.la.format_index = @ + fragment.specifier_length_]

\* lines 348-360: roll back and return, or count the bytes and move on
FinishArgument(c, fragment) ==
    IF c.tmp = 0 /\ c.arg_size > 0
       THEN [c EXCEPT !.la.conversion_index = c.original.conversion_index,
                      !.la.parameter_index = c.original.parameter_index,
                      !.la.args_read_pos = c.original.args_read_pos,
                      !.returned = TRUE]
       ELSE [FinishWriting(c) EXCEPT
                !.decoded = Append(@, c.value),
                !.la.args_read_pos = @ + ParamSizeAt(c.la),
                !.la.conversion_index = @ + 1,
                !.la.parameter_index = @ + 1,
                !.la.format_index = @ + fragment.specifier_length_]

ArgumentStep(c, fragment) ==
    LET Format(x) == FormatArgument(x, fragment.conversion_type_)
        Finish(x) == FinishArgument(x, fragment)
    IN Then(Then(Then(Then(SaveOriginal(c), LoadDynamicWidth),
                      LoadDynamicPrecision),
                 Format),
            Finish)

\* a run of n chars of the format string from format_index_
AdvanceFormat(c) ==
    IF c.returned THEN c ELSE [c EXCEPT !.la.format_index = @ + c.tmp]

LiteralStep(c, n) ==
    Then(StringPhase(c, SubSeq(c.la.static_log_info.format_str_,
                               c.la.format_index + 1,
                               c.la.format_index + n)),
         AdvanceFormat)

\* format_fragments_[conversion_index_]
FragmentAt(a) == a.static_log_info.format_fragments_[a.conversion_index + 1]

\* one iteration of the loop of lines 159-374
BodyStep(c) ==
    IF c.la.conversion_index < c.la.static_log_info.num_conversions_
       THEN IF c.la.format_index < FragmentAt(c.la).format_pos_
               THEN LiteralStep(c, FragmentAt(c.la).format_pos_
                                   - c.la.format_index)
               ELSE ArgumentStep(c, FragmentAt(c.la))
       ELSE LiteralStep(c, c.la.static_log_info.format_len_
                           - c.la.format_index)

RECURSIVE BodyLoop(_)
BodyLoop(c) ==
    IF c.returned
       \/ ~(c.la.format_index < c.la.static_log_info.format_len_)
       THEN c
       ELSE Then(BodyStep(c), BodyLoop)

\* the phases guarded by a flag: skipped once write() has returned
SetFlag(c, flag) ==
    IF c.returned THEN c ELSE [c EXCEPT !.la[flag] = TRUE]

SetTimestampWrited(c) == SetFlag(c, "is_timestamp_writed")
SetFilenameWrited(c) == SetFlag(c, "is_filename_and_linenum_writed")
SetSeverityWrited(c) == SetFlag(c, "is_severity_writed")
SetProducerIdWrited(c) == SetFlag(c, "is_producer_id_writed")
SetEndOfLogWrited(c) == SetFlag(c, "is_end_of_log_writed")

TimestampPhase(c) ==
    IF c.returned \/ c.la.is_timestamp_writed THEN c
    ELSE Then(StringPhase(c, c.la.timestamp_str), SetTimestampWrited)

FilenamePhase(c) ==
    IF c.returned \/ c.la.is_filename_and_linenum_writed THEN c
    ELSE Then(StringPhase(c, c.la.filename_and_linenum), SetFilenameWrited)

SeverityPhase(c) ==
    IF c.returned \/ c.la.is_severity_writed THEN c
    ELSE Then(StringPhase(c, SeverityStr[c.la.static_log_info.log_level_ + 1]),
              SetSeverityWrited)

ProducerIdPhase(c) ==
    IF c.returned \/ c.la.is_producer_id_writed THEN c
    ELSE Then(StringPhase(c, c.la.producer_id), SetProducerIdWrited)

EndOfLogPhase(c) ==
    IF c.returned \/ c.la.is_end_of_log_writed THEN c
    ELSE Then(StringPhase(c, c.la.end_of_log), SetEndOfLogWrited)

\* what write() hands back: the assembler and the array afterwards, the
\* returned byte count, and as history the bytes counted, whether the
\* region was found exhausted, and the argument values of the conversions
\* that were counted
WriteResult(c) ==
    [la |-> c.la, mem |-> c.mem, result |-> c.la.bytes_last_writed,
     chunk |-> c.chunk, exhausted |-> c.exhausted, decoded |-> c.decoded]

\* the state of write() after "bytes_last_writed_ = 0"
WriteEntry(a, mem) ==
    [la |-> [a EXCEPT !.bytes_last_writed = 0], mem |-> mem,
     tmp |-> 0, piece |-> <<>>, chunk |-> <<>>, returned |-> FALSE,
     exhausted |-> FALSE, width |-> -1, precision |-> -1, arg_size |-> 0,
     value |-> <<>>, decoded |-> <<>>,
     original |-> [conversion_index |-> 0, parameter_index |-> 0,
                   args_read_pos |-> 0]]

\* LogAssembler::write on the assembler a whose region lies in the array mem
Write(a, mem) ==
    IF a.is_full
       THEN [la |-> a, mem |-> mem, result |-> 0, chunk |-> <<>>,
             exhausted |-> FALSE, decoded |-> <<>>]
       ELSE Then(Then(Then(Then(Then(Then(Then(WriteEntry(a, mem),
                TimestampPhase), FilenamePhase), SeverityPhase),
                ProducerIdPhase), BodyLoop), EndOfLogPhase), WriteResult)

\* the text of a whole record: write() on a freshly loaded assembler whose
\* region is larger than any record
ReferenceRegion == 200
Reference(static_info, dynamic_info, producer_id) ==
    Write(LoadLogInfo(SetBuffer(NewLogAssembler, 1, ReferenceRegion),
                      static_info, dynamic_info, producer_id), <<>>).chunk


(***************************************************************************)
(* The Logger (logger.h, logger.cc) with its producer threads, each owning *)
(* one heap-allocated StagingBuffer.  A StagingBuffer is a record here and *)
(* each of its member functions (one iteration of the reserve loop) is one *)
(* step; its storage maps the offset of a record to that record.           *)
(***************************************************************************)
\* the producer threads of the modelled program
NumThreads == 2
\* Log calls of the modelled program, over all threads
MaxLogs == 2
\* config::STORAGE_BUFFER_SIZE, scaled down
StagingCapacity == 64
\* config::DOUBLE_BUFFER_SIZE, scaled down
DoubleBufferSize == 64
\* region sizes the assembler is driven with
RegionSizes == {25, 31, 40, 43, DoubleBufferSize}

Threads == 1..NumThreads

\* the (call site, arguments) pairs the threads of the Logger runs log
LoggerCalls == { <<1, <<<<7>>>> >> }

\* io_uring_submit with one prepared SQE: 1 (submitted) or -errno
SubmitResults == {1, -1}

Unallocated == [state |-> "unallocated"]

\* StagingBuffer::StagingBuffer
NewStagingBuffer(buffer_id) ==
    [state |-> "live",
     producer_pos |-> 0,
     end_of_data |-> StagingCapacity,
     consumer_pos |-> 0,
     buffer_id |-> buffer_id,
     should_be_destructed |-> FALSE,
     available_bytes |-> StagingCapacity,
     storage |-> <<>>]

\* one iteration of the loop of reserveProducerSpaceInternal
ReserveIteration(b, n) ==
    LET cached_consumer == b.consumer_pos
    IN IF cached_consumer <= b.producer_pos
          THEN IF StagingCapacity - b.producer_pos > n
                  THEN [b EXCEPT !.available_bytes =
                                     StagingCapacity - b.producer_pos]
                  ELSE IF cached_consumer # 0
                          THEN [b EXCEPT !.end_of_data = b.producer_pos,
                                         !.producer_pos = 0,
                                         !.available_bytes = cached_consumer]
                          ELSE [b EXCEPT !.end_of_data = b.producer_pos,
                                         !.available_bytes =
                                             StagingCapacity - b.producer_pos]
          ELSE [b EXCEPT !.available_bytes =
                             SizeSub(cached_consumer, b.consumer_pos)]

\* finishReservation after the record was stored at producer_pos_
StoreAndFinish(b, rec) ==
    [b EXCEPT !.storage = (b.producer_pos :> rec) @@ b.storage,
              !.available_bytes = b.available_bytes - rec.info_size_,
              !.producer_pos = b.producer_pos + rec.info_size_]

\* peek: the buffer afterwards, *available_bytes and the returned position
PeekBuffer(b) ==
    LET cached_producer == b.producer_pos
    IN IF cached_producer < b.consumer_pos
          THEN IF b.end_of_data - b.consumer_pos > 0
                  THEN [buf |-> b,
                        peek_bytes |-> b.end_of_data - b.consumer_pos,
                        read_pos |-> b.consumer_pos]
                  ELSE [buf |-> [b EXCEPT !.consumer_pos = 0],
                        peek_bytes |-> cached_producer,
                        read_pos |-> 0]
          ELSE [buf |-> b,
                peek_bytes |-> cached_producer - b.consumer_pos,
                read_pos |-> b.consumer_pos]

ConsumeBuffer(b, n) == [b EXCEPT !.consumer_pos = b.consumer_pos + n]

\* a faulty shouldBeDestructed that forgets the DestructGuard flag; C10
\* distinguishes it from the one of buffers.h:149-151
ShouldBeDestructedWhenEmpty(b) == b.consumer_pos = b.producer_pos

ShouldBeDestructedBuffer(b) ==
    b.should_be_destructed /\ b.consumer_pos = b.producer_pos

\* the time stamp of the modelled Log calls
Now == CHOOSE ts \in Timestamps : TRUE

\* unistd.h: STDOUT_FILENO, and the descriptors a process starts with
STDOUT_FILENO == 1
StandardFds == {0, 1, 2}

\* Logger::Logger, the thread_local staging_buffer_ of every thread, the
\* static log_id of every call site, and the start of the consumer thread.
\* first is <<>>, or << <<call site, arguments, outcome of GetArgSizes>> >>
\* when thread 1 has made one Log call before the consumer thread takes its
\* first step.
LoggerInit(size, first) ==
    LET logged == first # <<>>
        cs1 == IF logged THEN first[1][1] ELSE 0
        rec == MakeDynamicLogInfo(0, cs1, first[1][2], first[1][3], Now)
    IN
    /\ threads = [t \in Threads |->
                    IF logged /\ t = 1
                       THEN [pc |-> "idle", staging_buffer |-> 1,
                             buffer_id |-> 0, cs |-> cs1,
                             args |-> first[1][2],
                             arg_sizes |-> first[1][3]]
                       ELSE [pc |-> "idle", staging_buffer |-> 0,
                             buffer_id |-> 0, cs |-> 0, args |-> <<>>,
                             arg_sizes |-> NullInfo]]
    /\ log_ids = [cs \in 1..Len(CallSites) |->
                    IF logged /\ cs = cs1 THEN 0 ELSE UNREGISTERED_LOG_ID]
    /\ param_sizes = IF logged THEN WriteParamSizes(ZeroParamSizes, cs1)
                                ELSE ZeroParamSizes
    /\ heap = [h \in Threads |->
                 IF logged /\ h = 1
                    THEN StoreAndFinish(NewStagingBuffer(0), rec)
                    ELSE Unallocated]
    /\ logger = [current_log_level |-> 3,
                 output_fd |-> STDOUT_FILENO,
                 open_fds |-> StandardFds,
                 producer_buffers |-> IF logged THEN <<1>> ELSE <<>>,
                 next_buffer_id |-> IF logged THEN 1 ELSE 0,
                 producer_buffers_mtx |-> 0,
                 registered_info |-> IF logged THEN <<cs1>> ELSE <<>>,
                 shadow_registered_info |-> <<>>,
                 buffer_for_log |-> 1,
                 buffer_for_io |-> 2,
                 num_sqes |-> 0,
                 consumer_should_exit |-> FALSE]
    /\ halves = << <<>>, <<>> >>
    /\ double_buffer_size = size
    /\ ring = [inflight |-> {}, cq |-> 0, open |-> TRUE]
    /\ main = "running"
    /\ la = NewLogAssembler
    /\ loop = [pc |-> "start", has_outstanding_operation |-> FALSE,
               consuming_buffer_idx |-> 0, consuming_buffer |-> 0,
               peek_bytes |-> 0, read_pos |-> 0, bytes_consumed |-> 0,
               dynamic_log_info |-> NullInfo]
    /\ obs = [logs |-> IF logged THEN 1 ELSE 0,
              committed |-> [h \in Threads |->
                               IF logged /\ h = 1 THEN <<rec>> ELSE <<>>],
              loaded |-> [h \in Threads |-> <<>>],
              decoded |-> <<>>,
              submissions |-> <<>>,
              waited |-> 0,
              written_since_swap |-> <<>>,
              last_swap |-> NullInfo,
              last_write |-> NullInfo,
              deleted |-> <<>>,
              use_after_free |-> FALSE,
              exit_state |-> NullInfo,
              calls |-> [t \in Threads |-> NullInfo],
              set_file |-> NullInfo,
              fd_mutators |-> {},
              assignments |-> <<>>,
              contended |-> FALSE]

\* an operation on StagingBuffer h is on freed or unallocated memory
Dangling(h) == heap[h].state # "live"


(***************************************************************************)
(* A producer thread: Log() of olog.h:14-81, thread exit.                  *)
(***************************************************************************)
logRest == <<logger, halves, double_buffer_size, ring, main, la, loop>>

\* Log() up to ReserveAlloc: the severity filter, and for a call site whose
\* log_id is UNREGISTERED_LOG_ID Logger::registerLogInfoInternal
LogBegin(t) ==
    /\ threads[t].pc = "idle"
    /\ obs.logs < MaxLogs
    /\ \E call \in CallsAt(LoggerCalls) :
         LET cs == call[1]
             filtered == CallSites[cs].log_level_ > logger.current_log_level
             registers == ~filtered /\ log_ids[cs] = UNREGISTERED_LOG_ID
         IN /\ threads' = [threads EXCEPT
                             ![t].pc = IF filtered THEN "idle"
                                       ELSE IF threads[t].staging_buffer = 0
                                            THEN "alloc_id"
                                       ELSE "reserve",
                             ![t].cs = cs,
                             ![t].args = call[2],
                             ![t].arg_sizes = call[3]]
            /\ log_ids' = IF registers
                             THEN [log_ids EXCEPT
                                     ![cs] = Len(logger.registered_info)]
                             ELSE log_ids
            /\ param_sizes' = IF registers
                                 THEN WriteParamSizes(param_sizes, cs)
                                 ELSE param_sizes
            /\ logger' = IF registers
                            THEN [logger EXCEPT
                                    !.registered_info = Append(@, cs)]
                            ELSE logger
    /\ obs' = [obs EXCEPT !.logs = @ + 1]
    /\ UNCHANGED <<bufVars, format_str, analysis, heap, halves,
                   double_buffer_size, ring, main, la, loop>>

\* ensureBufferIsAllocated: buffer_id = next_buffer_id_++ under the mutex,
\* then new StagingBuffer, which binds the thread's DestructGuard
EnsureBufferNew(t) ==
    /\ threads[t].pc = "alloc_id"
    /\ logger.producer_buffers_mtx = 0
    /\ logger' = [logger EXCEPT !.next_buffer_id = @ + 1]
    /\ heap' = [heap EXCEPT ![t] = NewStagingBuffer(logger.next_buffer_id)]
    /\ threads' = [threads EXCEPT ![t].pc = "alloc_push",
                                  ![t].buffer_id = logger.next_buffer_id,
                                  ![t].staging_buffer = t]
    /\ UNCHANGED <<bufVars, fmtVars, log_ids, halves, double_buffer_size, ring, main,
                   la, loop, obs>>

\* ensureBufferIsAllocated: producer_buffers_.push_back under the mutex
EnsureBufferPush(t) ==
    /\ threads[t].pc = "alloc_push"
    /\ logger.producer_buffers_mtx = 0
    /\ logger' = [logger EXCEPT !.producer_buffers =
                                    Append(@, threads[t].staging_buffer)]
    /\ threads' = [threads EXCEPT ![t].pc = "reserve"]
    /\ UNCHANGED <<bufVars, fmtVars, log_ids, heap, halves, double_buffer_size, ring,
                   main, la, loop, obs>>

\* the record the call in progress stores
CallRecord(t) ==
    MakeDynamicLogInfo(log_ids[threads[t].cs], threads[t].cs,
                       threads[t].args, threads[t].arg_sizes, Now)

\* ReserveAlloc: reserveProducerSpace(alloc_size), blocking: the fast path,
\* else one iteration of the internal loop; once the space is there the
\* header and the arguments are stored and FinishAlloc commits them
LogStore(t) ==
    /\ threads[t].pc = "reserve"
    /\ LET h == threads[t].staging_buffer
           rec == CallRecord(t)
           n == rec.info_size_
           b == IF n < heap[h].available_bytes THEN heap[h]
                ELSE ReserveIteration(heap[h], n)
       IN IF b.available_bytes > n
             THEN /\ heap' = [heap EXCEPT ![h] = StoreAndFinish(b, rec)]
                  /\ threads' = [threads EXCEPT ![t].pc = "idle"]
                  /\ obs' = [obs EXCEPT !.committed[h] = Append(@, rec),
                                        !.use_after_free = @ \/ Dangling(h)]
             ELSE /\ heap' = [heap EXCEPT ![h] = b]
                  /\ obs' = [obs EXCEPT !.use_after_free = @ \/ Dangling(h)]
                  /\ threads' = threads
    /\ UNCHANGED <<bufVars, fmtVars, log_ids, logRest>>

\* the thread ends: ~DestructGuard of its thread_local guard
ThreadExit(t) ==
    /\ threads[t].pc = "idle"
    /\ LET h == threads[t].staging_buffer
       IN IF h # 0
             THEN /\ heap' = [heap EXCEPT ![h].should_be_destructed = TRUE]
                  /\ obs' = [obs EXCEPT !.use_after_free = @ \/ Dangling(h)]
             ELSE UNCHANGED <<heap, obs>>
    /\ threads' = [threads EXCEPT ![t].pc = "exited"]
    /\ UNCHANGED <<bufVars, fmtVars, log_ids, logRest>>


(***************************************************************************)
(* swapDoubleBuffer (logger.h:182-196) with waitForIoUring and submitLog   *)
(* (logger.cc:116-135), followed by the setBuffer of its two call sites.   *)
(***************************************************************************)
\* waitForIoUring returns at once when num_sqes_ is 0, else when
\* io_uring_wait_cqe has a completion to give
CanWaitForIoUring == logger.num_sqes = 0 \/ ring.cq > 0

\* the halves whose submitted write has not completed
InFlightHalves == {obs.submissions[i].half : i \in ring.inflight}

\* num_sqes_ after submitLog(nbytes) when io_uring_submit returned ret
NumSqesAfterSubmit(num_sqes, nbytes, ret) ==
    IF nbytes # 0 /\ ret = 0 THEN num_sqes + 1 ELSE num_sqes

\* the first n chars of a half; a char the assembler never wrote reads as
\* 0, std::make_unique<char[]> value-initialising the arrays
FirstBytes(mem, n) == [i \in 1..n |-> IF i <= Len(mem) THEN mem[i] ELSE 0]

\* a faulty submitLog that hands over the new write target; C8
\* distinguishes it from the one of logger.cc:126-135
SubmittedWrongHalf(lg) == lg.buffer_for_log

\* the half handed to io_uring_prep_write: buffer_for_io_ (after the swap)
SubmittedHalf(lg) == lg.buffer_for_io

SwapDoubleBuffer(bytes_in_buffer_for_log, ret) ==
    LET waits == logger.num_sqes # 0
        submits == bytes_in_buffer_for_log # 0
        swapped == [logger EXCEPT !.buffer_for_io = logger.buffer_for_log,
                                  !.buffer_for_log = logger.buffer_for_io]
        io == SubmittedHalf(swapped)
        submission == [half |-> io, nbytes |-> bytes_in_buffer_for_log,
                       fd |-> logger.output_fd,
                       data |-> FirstBytes(halves[io], bytes_in_buffer_for_log),
                       ret |-> ret]
        lg == [swapped EXCEPT
                 !.num_sqes = NumSqesAfterSubmit(@, bytes_in_buffer_for_log,
                                                 ret)]
        inflight == IF submits /\ ret > 0
                       THEN ring.inflight \cup {Len(obs.submissions) + 1}
                       ELSE ring.inflight
    IN /\ CanWaitForIoUring
       /\ logger' = lg
       /\ ring' = [ring EXCEPT !.cq = IF waits THEN @ - 1 ELSE @,
                               !.inflight = inflight]
       /\ la' = SetBuffer(la, lg.buffer_for_log, double_buffer_size)
       /\ obs' = [obs EXCEPT
                    !.submissions = IF submits THEN Append(@, submission)
                                               ELSE @,
                    !.waited = IF waits THEN @ + 1 ELSE @,
                    !.written_since_swap = <<>>,
                    !.last_swap =
                        [log_half_before |-> logger.buffer_for_log,
                         written_before |-> obs.written_since_swap,
                         submitted_half |-> io,
                         submitted |-> IF submits THEN submission.data
                                                  ELSE <<>>,
                         target |-> lg.buffer_for_log,
                         count_after |->
                             GetWritedBytes(SetBuffer(la, lg.buffer_for_log,
                                                      double_buffer_size)),
                         target_in_flight |->
                             lg.buffer_for_log \in InFlightHalves]]

(***************************************************************************)
(* The consumer thread: consumerThreadMain (logger.cc:137-232).            *)
(***************************************************************************)
\* the producer_buffers_mtx_ holder when the consumer has it
ConsumerHolds == -1

\* log_assembler.setBuffer(buffer_for_log_.get(), DOUBLE_BUFFER_SIZE)
ConsumerStart ==
    /\ loop.pc = "start"
    /\ la' = SetBuffer(la, logger.buffer_for_log, double_buffer_size)
    /\ loop' = [loop EXCEPT !.pc = "while"]
    /\ UNCHANGED <<bufVars, fmtVars, threads, log_ids, heap, logger, halves,
                   double_buffer_size, ring, main, obs>>

\* the staging buffers in the list that hold unread bytes
NonEmptyBuffers ==
    {h \in Threads : /\ \E i \in 1..Len(logger.producer_buffers) :
                           logger.producer_buffers[i] = h
                     /\ heap[h].consumer_pos # heap[h].producer_pos}

\* while (!consumer_should_exit_ || has_outstanding_operation), then the
\* lock of producer_buffers_mtx_ and consuming_buffer_idx = 0
ConsumerWhile ==
    /\ loop.pc = "while"
    /\ IF ~logger.consumer_should_exit \/ loop.has_outstanding_operation
          THEN /\ logger.producer_buffers_mtx = 0
               /\ logger' = [logger EXCEPT !.producer_buffers_mtx =
                                               ConsumerHolds]
               /\ loop' = [loop EXCEPT !.pc = "for",
                                       !.consuming_buffer_idx = 0]
               /\ obs' = obs
          ELSE /\ loop' = [loop EXCEPT !.pc = "done"]
               /\ obs' = [obs EXCEPT !.exit_state =
                             [non_empty |-> NonEmptyBuffers,
                              in_flight |-> ring.inflight,
                              submitted |-> Len(obs.submissions),
                              waited |-> obs.waited,
                              committed |-> obs.committed,
                              loaded |-> obs.loaded]]
               /\ logger' = logger
    /\ UNCHANGED <<bufVars, fmtVars, threads, log_ids, heap, halves,
                   double_buffer_size, ring, main, la>>

\* s without its element at 0-based index i
Erase(s, i) == SubSeq(s, 1, i) \o SubSeq(s, i + 2, Len(s))

\* one iteration of the for loop: peek; a buffer with bytes is processed
\* with the mutex released, an empty one is deleted when it may be
ConsumerFor ==
    /\ loop.pc = "for"
    /\ IF loop.consuming_buffer_idx < Len(logger.producer_buffers)
          THEN LET idx == loop.consuming_buffer_idx
                   h == logger.producer_buffers[idx + 1]
                   pk == PeekBuffer(heap[h])
               IN IF pk.peek_bytes > 0
                     THEN /\ heap' = [heap EXCEPT ![h] = pk.buf]
                          /\ logger' = [logger EXCEPT
                                           !.producer_buffers_mtx = 0]
                          /\ loop' = [loop EXCEPT !.pc = "record",
                                         !.consuming_buffer = h,
                                         !.peek_bytes = pk.peek_bytes,
                                         !.read_pos = pk.read_pos,
                                         !.bytes_consumed = 0]
                          /\ obs' = [obs EXCEPT !.use_after_free =
                                                    @ \/ Dangling(h)]
                     ELSE IF ShouldBeDestructedBuffer(pk.buf)
                     THEN LET rest == Erase(logger.producer_buffers, idx)
                          IN /\ heap' = [heap EXCEPT
                                           ![h] = [pk.buf EXCEPT
                                                     !.state = "freed"]]
                             /\ logger' = [logger EXCEPT
                                             !.producer_buffers = rest]
                             /\ loop' = [loop EXCEPT
                                           !.consuming_buffer_idx =
                                             IF rest # <<>> THEN idx
                                                            ELSE idx + 1]
                             /\ obs' = [obs EXCEPT
                                   !.use_after_free = @ \/ Dangling(h),
                                   !.deleted = Append(@,
                                      [buffer |-> h,
                                       was_live |-> ~Dangling(h),
                                       guard_ended |->
                                           threads[h].pc = "exited",
                                       empty |-> pk.buf.consumer_pos
                                                 = pk.buf.producer_pos])]
                     ELSE /\ heap' = [heap EXCEPT ![h] = pk.buf]
                          /\ loop' = [loop EXCEPT
                                         !.consuming_buffer_idx = idx + 1]
                          /\ obs' = [obs EXCEPT !.use_after_free =
                                                    @ \/ Dangling(h)]
                          /\ logger' = logger
          ELSE /\ logger' = [logger EXCEPT !.producer_buffers_mtx = 0]
               /\ loop' = [loop EXCEPT !.pc = "pass_end"]
               /\ UNCHANGED <<heap, obs>>
    /\ UNCHANGED <<bufVars, fmtVars, threads, log_ids, halves, double_buffer_size,
                   ring, main, la>>


\* a refresh that copies from the front of the registry
UpdateShadowFromFront(shadow, registered) ==
    shadow \o SubSeq(registered, 1, Len(registered) - Len(shadow))

\* Logger::updateShadowRegisteredInfo, under registered_info_mtx_: the
\* entries from shadow.size() on are pushed to the shadow copy
UpdateShadowRegisteredInfo(shadow, registered) ==
    shadow \o SubSeq(registered, Len(shadow) + 1, Len(registered))

\* while (bytes_consumed < peek_bytes): read the header at read_pos, bring
\* the shadow copy of the registry up to date, loadLogInfo; after the last
\* record take the mutex again and go on with the next buffer
ConsumerRecord ==
    /\ loop.pc = "record"
    /\ IF loop.bytes_consumed < loop.peek_bytes
          THEN LET h == loop.consuming_buffer
                   present == loop.read_pos \in DOMAIN heap[h].storage
                   rec == heap[h].storage[loop.read_pos]
                   shadow == IF rec.log_id_ >= Len(logger.shadow_registered_info)
                                THEN UpdateShadowRegisteredInfo(
                                         logger.shadow_registered_info,
                                         logger.registered_info)
                                ELSE logger.shadow_registered_info
               IN IF present
                     THEN /\ logger' = [logger EXCEPT
                                          !.shadow_registered_info = shadow]
                          /\ la' = LoadLogInfo(la,
                                      CallSites[shadow[rec.log_id_ + 1]], rec,
                                      loop.consuming_buffer_idx)
                          /\ loop' = [loop EXCEPT !.pc = "write",
                                                  !.dynamic_log_info = rec]
                          /\ obs' = [obs EXCEPT
                                       !.loaded[h] = Append(@, rec),
                                       !.decoded = <<>>,
                                       !.use_after_free = @ \/ Dangling(h)]
                     ELSE \* bytes that are no record: the behaviour is undefined
                          /\ loop' = [loop EXCEPT !.pc = "garbage"]
                          /\ UNCHANGED <<logger, la, obs>>
          ELSE /\ logger.producer_buffers_mtx = 0
               /\ logger' = [logger EXCEPT !.producer_buffers_mtx =
                                               ConsumerHolds]
               /\ loop' = [loop EXCEPT !.pc = "for",
                              !.consuming_buffer_idx = @ + 1]
               /\ UNCHANGED <<la, obs>>
    /\ UNCHANGED <<bufVars, fmtVars, threads, log_ids, heap, halves,
                   double_buffer_size, ring, main>>

\* while (hasRemainingData()): write(), and a swap when isBufferFull();
\* after the loop bytes_consumed, read_pos and consume(info_size_)
ConsumerWrite ==
    /\ loop.pc = "write"
    /\ IF HasRemainingData(la)
          THEN LET w == Write(la, halves[la.write_pos.half])
               IN /\ la' = w.la
                  /\ halves' = [halves EXCEPT ![la.write_pos.half] = w.mem]
                  /\ loop' = [loop EXCEPT !.pc = IF IsBufferFull(w.la)
                                                    THEN "swap" ELSE "write"]
                  /\ obs' = [obs EXCEPT
                               !.written_since_swap = @ \o w.chunk,
                               !.decoded = @ \o w.decoded,
                               !.last_write =
                                   [result |-> w.result,
                                    exhausted |-> w.exhausted]]
                  /\ heap' = heap
          ELSE LET h == loop.consuming_buffer
                   n == loop.dynamic_log_info.info_size_
               IN /\ heap' = [heap EXCEPT ![h] = ConsumeBuffer(heap[h], n)]
                  /\ loop' = [loop EXCEPT !.pc = "record",
                                          !.bytes_consumed = @ + n,
                                          !.read_pos = @ + n]
                  /\ obs' = [obs EXCEPT !.use_after_free = @ \/ Dangling(h)]
                  /\ UNCHANGED <<la, halves>>
    /\ UNCHANGED <<bufVars, fmtVars, threads, log_ids, logger, double_buffer_size,
                   ring, main>>

\* swapDoubleBuffer(getWritedBytes()); setBuffer(...) of lines 190-195
ConsumerSwap ==
    /\ loop.pc = "swap"
    /\ \E ret \in SubmitResults : SwapDoubleBuffer(GetWritedBytes(la), ret)
    /\ loop' = [loop EXCEPT !.pc = "write"]
    /\ UNCHANGED <<bufVars, fmtVars, threads, log_ids, heap, halves,
                   double_buffer_size, main>>

\* the end of a pass (lines 221-230)
ConsumerPassEnd ==
    /\ loop.pc = "pass_end"
    /\ IF GetWritedBytes(la) = 0
          THEN /\ loop' = [loop EXCEPT !.pc = "while",
                                       !.has_outstanding_operation = FALSE]
               /\ UNCHANGED <<logger, ring, la, obs>>
          ELSE /\ \E ret \in SubmitResults :
                     SwapDoubleBuffer(GetWritedBytes(la), ret)
               /\ loop' = [loop EXCEPT !.pc = "while",
                                       !.has_outstanding_operation = TRUE]
    /\ UNCHANGED <<bufVars, fmtVars, threads, log_ids, heap, halves,
                   double_buffer_size, main>>

\* the kernel completes a submitted write and posts its completion
KernelComplete ==
    /\ ring.open
    /\ \E i \in ring.inflight :
         ring' = [ring EXCEPT !.inflight = @ \ {i}, !.cq = @ + 1]
    /\ UNCHANGED <<bufVars, fmtVars, threads, log_ids, heap, logger, halves,
                   double_buffer_size, main, la, loop, obs>>

(***************************************************************************)
(* Logger::~Logger (logger.cc:47-58).                                      *)
(***************************************************************************)
LoggerDtorBegin ==
    /\ main = "running"
    /\ logger' = [logger EXCEPT !.consumer_should_exit = TRUE]
    /\ main' = "joining"
    /\ UNCHANGED <<bufVars, fmtVars, threads, log_ids, heap, halves,
                   double_buffer_size, ring, la, loop, obs>>

\* join() has returned: close(output_fd_), io_uring_queue_exit(&ring)
LoggerDtorEnd ==
    /\ main = "joining"
    /\ loop.pc = "done"
    /\ ring' = [ring EXCEPT !.open = FALSE]
    /\ main' = "destroyed"
    /\ UNCHANGED <<bufVars, fmtVars, threads, log_ids, heap, logger, halves,
                   double_buffer_size, la, loop, obs>>

\* the staging-buffer variables of Spec are not used by the Logger specs
NoBuffer ==
    /\ producer_pos = 0 /\ end_of_data = 0 /\ consumer_pos = 0
    /\ available_bytes = 0 /\ should_be_destructed = FALSE
    /\ storage = <<>> /\ ppc = "none" /\ num_bytes = 0 /\ blocking = FALSE
    /\ cached_consumer_pos = 0 /\ cpc = "none" /\ cached_producer_pos = 0
    /\ peek_bytes = 0 /\ read_pos = 0 /\ bytes_consumed = 0 /\ info_size = 0
    /\ committed = <<>> /\ consumed = <<>> /\ unconsumed = {}
    /\ handed_null = FALSE

(***************************************************************************)
(* SpecLogger: the Logger of a program whose threads start, log and exit   *)
(* while the consumer runs, and which destroys the Logger at some point.   *)
(***************************************************************************)
InitLogger == NoBuffer /\ NoAnalysis /\ LoggerInit(DoubleBufferSize, <<>>)

NextLogger ==
    \/ \E t \in Threads : LogBegin(t)
    \/ \E t \in Threads : EnsureBufferNew(t)
    \/ \E t \in Threads : EnsureBufferPush(t)
    \/ \E t \in Threads : LogStore(t)
    \/ \E t \in Threads : ThreadExit(t)
    \/ ConsumerStart
    \/ ConsumerWhile
    \/ ConsumerFor
    \/ ConsumerRecord
    \/ ConsumerWrite
    \/ ConsumerSwap
    \/ ConsumerPassEnd
    \/ KernelComplete
    \/ LoggerDtorBegin
    \/ LoggerDtorEnd

SpecLogger == InitLogger /\ [][NextLogger]_vars


(***************************************************************************)
(* SpecAsm: the consumer thread alone, assembling the one record thread 1  *)
(* has logged, for every call site, argument pack and region size.         *)
(* SpecAsmFair: the same, the consumer thread and the kernel keep running. *)
(***************************************************************************)
InitAsm ==
    /\ NoBuffer
    /\ NoAnalysis
    /\ \E size \in RegionSizes :
         \E cs \in 1..Len(CallSites) :
           \E args \in ArgPacks[cs] :
             \E arg_sizes \in ArgSizes(cs, args) :
               LoggerInit(size, << <<cs, args, arg_sizes>> >>)

NextAsm ==
    \/ ConsumerStart
    \/ ConsumerWhile
    \/ ConsumerFor
    \/ ConsumerRecord
    \/ ConsumerWrite
    \/ ConsumerSwap
    \/ ConsumerPassEnd
    \/ KernelComplete

SpecAsm == InitAsm /\ [][NextAsm]_vars

SpecAsmFair == InitAsm /\ [][NextAsm]_vars /\ WF_vars(NextAsm)


(***************************************************************************)
(* Claims about the consumer loop at shutdown, checked under SpecLogger.   *)
(***************************************************************************)
ConsumerExited == loop.pc = "done"

\* C3: the consumer loop terminates only in a state where every staging
\* buffer still in producer_buffers_ is empty and every record committed
\* before has been loaded into the assembler (none is lost at shutdown).
C3_ExitsOnlyWithEmptyBuffers ==
    ConsumerExited =>
        /\ obs.exit_state.non_empty = {}
        /\ \A h \in Threads :
              Len(obs.exit_state.loaded[h]) = Len(obs.exit_state.committed[h])

\* C4: when the consumer loop terminates no submitted asynchronous write is
\* still outstanding: every write that was submitted has been waited for.
C4_ExitsOnlyWithWritesWaitedFor ==
    ConsumerExited =>
        /\ obs.exit_state.in_flight = {}
        /\ obs.exit_state.waited =
              Cardinality({i \in 1..obs.exit_state.submitted :
                              obs.submissions[i].ret > 0})

(***************************************************************************)
(* Claims about the assembler and the double buffer, checked under SpecAsm *)
(* (C6 under SpecAsmFair).                                                 *)
(***************************************************************************)
\* C5: after a write(), isBufferFull() is true only if that write itself
\* found its region exhausted (so that after a swap to a fresh region the
\* next write() resumes the record).
C5_FullOnlyWhenLastWriteExhausted ==
    (obs.last_write # NullInfo /\ loop.pc \in {"write", "swap"})
        => (IsBufferFull(la) => obs.last_write.exhausted)

\* the bytes counted as written, region after region
RECURSIVE SubmittedBytes(_)
SubmittedBytes(subs) ==
    IF subs = <<>> THEN <<>>
    ELSE Head(subs).data \o SubmittedBytes(Tail(subs))

Emitted ==
    SubmittedBytes(obs.submissions)
    \o (IF la.write_pos.half = 0 THEN <<>>     \* before the first setBuffer
        ELSE SubSeq(halves[la.write_pos.half], 1, GetWritedBytes(la)))

\* the text of the record of SpecAsm, assembled in one large region
ReferenceText ==
    Reference(CallSites[threads[1].cs], obs.committed[1][1], 0)

\* C6: a record whose assembly is split across regions by exhaustion and
\* swap is in the end emitted whole: the concatenation of the bytes counted
\* in the successive regions comes to equal the single-region text.
C6_SplitOutputEqualsReference == <>(Emitted = ReferenceText)

\* C7: the half that a swap makes the assembler's write target is never one
\* whose asynchronous write is still in flight.
C7_TargetHalfNeverInFlight ==
    obs.last_swap # NullInfo => ~obs.last_swap.target_in_flight

\* C8: at every swap the range submitted is the half the assembler was
\* writing, from its first byte, with exactly the bytes written since the
\* previous swap, and the written count of the new half starts at zero.
C8_SubmittedEqualsWritten ==
    obs.last_swap # NullInfo =>
        /\ obs.last_swap.submitted_half = obs.last_swap.log_half_before
        /\ obs.last_swap.submitted = obs.last_swap.written_before
        /\ obs.last_swap.target # obs.last_swap.log_half_before
        /\ obs.last_swap.count_after = 0

\* a swap has submitted a region filled up to exhaustion, mid-record
C8_Witness ==
    /\ obs.last_swap # NullInfo
    /\ obs.last_swap.submitted # <<>>
    /\ HasRemainingData(la)

(***************************************************************************)
(* Claim about the life of the staging buffers, checked under SpecLogger.  *)
(***************************************************************************)
\* C10: a staging buffer is deleted at most once, by the consumer, at a
\* moment when shouldBeDestructed holds (guard ended, buffer empty), and no
\* thread operates on a deleted buffer.
C10_DeletedOnceWhenDestroyable ==
    /\ ~obs.use_after_free
    /\ \A i \in 1..Len(obs.deleted) :
          /\ obs.deleted[i].was_live
          /\ obs.deleted[i].guard_ended
          /\ obs.deleted[i].empty
          /\ \A j \in 1..Len(obs.deleted) :
                obs.deleted[j].buffer = obs.deleted[i].buffer => j = i
    /\ \A h \in Threads :
          heap[h].state = "freed" =>
              \E i \in 1..Len(obs.deleted) : obs.deleted[i].buffer = h

\* the consumer has deleted the buffer of a thread that logged and exited
C10_Witness ==
    \E i \in 1..Len(obs.deleted) :
        /\ obs.committed[obs.deleted[i].buffer] # <<>>
        /\ threads[obs.deleted[i].buffer].pc = "exited"


(***************************************************************************)
(* SpecLoggerFair: SpecLogger where the consumer thread, once started,     *)
(* keeps being scheduled and the kernel completes the writes it was given. *)
(***************************************************************************)
ConsumerStep ==
    \/ ConsumerStart
    \/ ConsumerWhile
    \/ ConsumerFor
    \/ ConsumerRecord
    \/ ConsumerWrite
    \/ ConsumerSwap
    \/ ConsumerPassEnd

SpecLoggerFair ==
    /\ InitLogger
    /\ [][NextLogger]_vars
    /\ WF_vars(ConsumerStep)
    /\ WF_vars(KernelComplete)

\* C11: the staging buffer of a producer thread that committed records and
\* exited is in the end deleted by the consumer (its records consumed, the
\* buffer erased from producer_buffers_), unless the consumer loop has ended.
C11_ExitedBufferIsFreed ==
    \A t \in Threads :
        (threads[t].pc = "exited" /\ obs.committed[t] # <<>>)
            ~> (heap[t].state = "freed" \/ ConsumerExited)


(***************************************************************************)
(* SpecLog: the producer threads run Log() statement by statement (the     *)
(* severity filter, the unlocked test of the call site's log_id, the       *)
(* registration under registered_info_mtx_, the allocation of the staging  *)
(* buffer, the commit) while the main thread calls SetLogLevel.            *)
(***************************************************************************)
\* LogLevel::NONE and LogLevel::NUMBER_OF_LOG_LEVELS
LogLevel_NONE == 0
NUMBER_OF_LOG_LEVELS == 5

\* the (call site, arguments) pairs the threads of SpecLog log
LogCalls == { <<1, <<<<7>>>> >>, <<3, <<>> >>, <<4, <<>> >> }

\* the levels SetLogLevel is called with (the last one is out of range)
SetLogLevelArgs == 0..NUMBER_OF_LOG_LEVELS

\* a faulty filter that also drops a call at the threshold itself; C16
\* distinguishes it from the one of olog.h:28
FilteredWhenNotBelow(severity, level) == severity >= level

\* olog.h:28: if (severity > Logger::GetLogLevel()) return;
Filtered(severity, level) == severity > level

\* a faulty registration without the test under the mutex; C12
\* distinguishes it from the one of logger.cc:63
NeverRegistered(log_id) == FALSE

\* logger.cc:63: if (log_id != UNREGISTERED_LOG_ID) return;
AlreadyRegistered(log_id) == log_id # UNREGISTERED_LOG_ID

\* Logger::setLogLevelInternal
SetLogLevelInternal(level) ==
    IF level >= NUMBER_OF_LOG_LEVELS THEN NUMBER_OF_LOG_LEVELS - 1 ELSE level

SetLogLevel ==
    /\ main = "running"
    /\ \E level \in SetLogLevelArgs :
         logger' = [logger EXCEPT
                      !.current_log_level = SetLogLevelInternal(level)]
    /\ UNCHANGED <<bufVars, fmtVars, threads, log_ids, heap, halves,
                   double_buffer_size, ring, main, la, loop, obs>>

\* where Log() goes once the call site is known to be registered
AfterRegistration(t) ==
    IF threads[t].staging_buffer = 0 THEN "alloc_id" ELSE "reserve"

\* Log() is entered and the severity filter is evaluated
LogFilter(t) ==
    /\ threads[t].pc = "idle"
    /\ obs.logs < MaxLogs
    /\ \E call \in CallsAt(LogCalls) :
         LET severity == CallSites[call[1]].log_level_
             level == logger.current_log_level
             filtered == Filtered(severity, level)
         IN /\ threads' = [threads EXCEPT
                             ![t].pc = IF filtered THEN "idle"
                                                   ELSE "check_id",
                             ![t].cs = call[1],
                             ![t].args = call[2],
                             ![t].arg_sizes = call[3]]
            /\ obs' = [obs EXCEPT
                         !.logs = @ + 1,
                         !.calls[t] = [seq |-> obs.logs + 1,
                                       severity |-> severity,
                                       threshold |-> level,
                                       committed_before |->
                                           Len(obs.committed[t])]]
    /\ UNCHANGED <<bufVars, fmtVars, log_ids, heap, logRest>>

\* olog.h:31: if (log_id == UNREGISTERED_LOG_ID), read without the mutex
LogCheckId(t) ==
    /\ threads[t].pc = "check_id"
    /\ threads' = [threads EXCEPT
                     ![t].pc = IF log_ids[threads[t].cs] = UNREGISTERED_LOG_ID
                                  THEN "register"
                                  ELSE AfterRegistration(t)]
    /\ UNCHANGED <<bufVars, fmtVars, log_ids, heap, logRest, obs>>

\* Logger::registerLogInfoInternal, under registered_info_mtx_
RegisterLogInfo(t) ==
    /\ threads[t].pc = "register"
    /\ LET cs == threads[t].cs
           log_id == Len(logger.registered_info)
       IN IF AlreadyRegistered(log_ids[cs])
             THEN /\ obs' = [obs EXCEPT !.contended = TRUE]
                  /\ UNCHANGED <<log_ids, logger>>
             ELSE /\ log_ids' = [log_ids EXCEPT ![cs] = log_id]
                  /\ logger' = [logger EXCEPT
                                  !.registered_info = Append(@, cs)]
                  /\ obs' = [obs EXCEPT
                               !.assignments = Append(@, <<cs, log_id>>)]
    /\ param_sizes' = WriteParamSizes(param_sizes, threads[t].cs)
    /\ threads' = [threads EXCEPT ![t].pc = AfterRegistration(t)]
    /\ UNCHANGED <<bufVars, format_str, analysis, heap, halves,
                   double_buffer_size, ring, main, la, loop>>

InitLog == NoBuffer /\ NoAnalysis /\ LoggerInit(DoubleBufferSize, <<>>)

NextLog ==
    \/ SetLogLevel
    \/ \E t \in Threads : LogFilter(t)
    \/ \E t \in Threads : LogCheckId(t)
    \/ \E t \in Threads : RegisterLogInfo(t)
    \/ \E t \in Threads : EnsureBufferNew(t)
    \/ \E t \in Threads : EnsureBufferPush(t)
    \/ \E t \in Threads : LogStore(t)

SpecLog == InitLog /\ [][NextLog]_vars

\* the positions of call site cs in registered_info_
Positions(cs) ==
    {i \in 1..Len(logger.registered_info) : logger.registered_info[i] = cs}

\* C12: for every call site at most one descriptor is in registered_info_,
\* its log_id was assigned at most once, is that descriptor's zero-based
\* position, and a thread past the registration finds the id assigned.
C12_RegisteredExactlyOnce ==
    /\ \A cs \in 1..Len(CallSites) :
          /\ Cardinality(Positions(cs)) <= 1
          /\ log_ids[cs] = UNREGISTERED_LOG_ID => Positions(cs) = {}
          /\ log_ids[cs] # UNREGISTERED_LOG_ID
                => Positions(cs) = {log_ids[cs] + 1}
    /\ \A i, j \in 1..Len(obs.assignments) :
          obs.assignments[i][1] = obs.assignments[j][1] => i = j
    /\ \A i \in 1..Len(obs.assignments) :
          /\ obs.assignments[i][2] = i - 1
          /\ log_ids[obs.assignments[i][1]] = obs.assignments[i][2]
    /\ \A t \in Threads :
          threads[t].pc \in {"alloc_id", "alloc_push", "reserve"}
              => log_ids[threads[t].cs] # UNREGISTERED_LOG_ID

\* two threads found the same call site unregistered, one of them lost the
\* race for the mutex, and both have committed their record
C12_Witness ==
    /\ obs.contended
    /\ \A t \in Threads : threads[t].pc = "idle" /\ obs.committed[t] # <<>>


\* the Log calls made so far by thread t, the last one included
HasCalled(t) == obs.calls[t] # NullInfo

\* thread t enters Log() in this step
EntersLog(t) == obs.calls[t]' # obs.calls[t]

\* what a filtered call must leave alone: the registry, the log_id slots
\* and the staging buffers
LogFrame == <<logger.registered_info, log_ids, heap>>

\* the last call of thread t, of a severity above the threshold it read, has
\* committed nothing; of a severity not above it, one record once returned
CommittedByLastCall(t) ==
    IF obs.calls[t].severity > obs.calls[t].threshold
       THEN /\ threads[t].pc = "idle"
            /\ Len(obs.committed[t]) = obs.calls[t].committed_before
       ELSE Len(obs.committed[t]) =
               obs.calls[t].committed_before
               + (IF threads[t].pc = "idle" THEN 1 ELSE 0)

\* C16: a Log call whose severity exceeds the threshold returns at once and
\* leaves the registry, the log_id slots and the staging buffers unchanged;
\* a call whose severity does not exceed it commits exactly one record to
\* the staging buffer of its thread.
C16_FilteredCallChangesNothing ==
    /\ [](\A t \in Threads : HasCalled(t) => CommittedByLastCall(t))
    /\ [][\A t \in Threads :
            (EntersLog(t) /\ obs.calls[t]'.severity > obs.calls[t]'.threshold)
                => (LogFrame' = LogFrame /\ threads[t].pc' = "idle")]_vars

\* one thread has committed the record of a call at the threshold, another
\* one has returned from a call above it
C16_Witness ==
    \E t, u \in Threads :
        /\ HasCalled(t) /\ HasCalled(u)
        /\ obs.calls[t].severity = obs.calls[t].threshold
        /\ threads[t].pc = "idle"
        /\ Len(obs.committed[t]) = obs.calls[t].committed_before + 1
        /\ obs.calls[u].severity > obs.calls[u].threshold

\* C17: a Log call that read the threshold NONE commits no record, whatever
\* its severity.
C17_NoneDisablesAllOutput ==
    \A t \in Threads :
        (HasCalled(t) /\ obs.calls[t].threshold = LogLevel_NONE)
            => Len(obs.committed[t]) = obs.calls[t].committed_before


(***************************************************************************)
(* SpecEdge: the staging buffer of Spec, whose producer also asks for      *)
(* Capacity - 1 and Capacity bytes while nothing has been committed.       *)
(***************************************************************************)
\* a faulty fast path that also takes a request equal to available_bytes_;
\* C13 distinguishes it from the one of buffers.h:98
FastPathWhenEqual(n, avail) == n <= avail

\* buffers.h:98: if (num_bytes < available_bytes_) return producer_pos_;
FastPath(n, avail) == n < avail

\* reserveProducerSpace(n, b) on the freshly constructed buffer, n being
\* capacity_ - 1 or capacity_
ReserveEdge ==
    /\ ppc = "idle"
    /\ committed = <<>>
    /\ \E n \in {Capacity - 1, Capacity}, b \in BOOLEAN :
        /\ (n < Capacity \/ ~b)                 \* the assert of line 96
        /\ num_bytes' = n
        /\ blocking' = b
        /\ ppc' = IF FastPath(n, available_bytes) THEN "write" ELSE "loop"
    /\ handed_null' = FALSE
    /\ UNCHANGED <<producer_pos, end_of_data, consumer_pos, available_bytes,
                   should_be_destructed, storage, cached_consumer_pos,
                   consumerLocals, history>>
    /\ UNCHANGED logVars

\* number of records the producer of SpecEdge commits with ordinary requests
EdgeRecords == 2

\* reserveProducerSpace(n, b) with an ordinary request, as in Spec, for the
\* first EdgeRecords records
ReserveOrdinary == ReserveProducerSpace /\ Len(committed) < EdgeRecords

NextEdge ==
    \/ ReserveEdge
    \/ ReserveOrdinary
    \/ ReserveLoop
    \/ ReserveBranch
    \/ ReservePublishEnd
    \/ ReserveWrap
    \/ ReserveElse
    \/ ReserveNull
    \/ WriteRecord
    \/ FinishReservation
    \/ DestructGuardEnd
    \/ PeekRead
    \/ PeekEndOfData
    \/ PeekReset
    \/ PeekReturn
    \/ AfterPeek
    \/ ReadRecord
    \/ Consume

SpecEdge == Init /\ [][NextEdge]_vars

\* the producer is between the call of reserveProducerSpace and the return
\* of finishReservation (or of the refused reservation)
InReserve == ppc \notin {"idle", "exited"}

\* C13: on a buffer nothing was committed to, a non-blocking reservation of
\* Capacity bytes is never handed a pointer and returns nullptr, and a
\* reservation of Capacity - 1 bytes is handed the start of storage without
\* entering the loop.
C13_ReservationAtCapacity ==
    /\ (num_bytes = Capacity /\ InReserve)
          => (~blocking /\ ppc \in {"loop", "branch", "eod", "null"})
    /\ (num_bytes = Capacity /\ ~InReserve) => handed_null
    /\ (num_bytes = Capacity - 1 /\ committed = <<>> /\ InReserve)
          => (ppc \in {"write", "finish"} /\ producer_pos = 0)
    /\ (num_bytes = Capacity - 1 /\ ~InReserve) => ~handed_null

\* Capacity - 1 bytes are handed out at the start of storage after a
\* reservation of Capacity bytes was refused (it published end_of_data_)
C13_Witness ==
    /\ ppc = "write"
    /\ num_bytes = Capacity - 1
    /\ committed = <<>>
    /\ end_of_data = 0
    /\ producer_pos = 0

(***************************************************************************)
(* Claims about wrap-around and blocking, checked under Spec and SpecFair. *)
(***************************************************************************)
\* C14: a reservation that fits exactly the space the consumer has freed in
\* front of it (everything committed is consumed, the request equals
\* consumer_pos_) is satisfied by publishing end_of_data_ and wrapping: it is
\* not refused once it has wrapped.
C14_ExactFitSucceedsViaWrap ==
    (/\ producer_pos = 0
     /\ end_of_data = cached_consumer_pos
     /\ num_bytes = cached_consumer_pos
     /\ unconsumed = {}) => ppc # "null"

\* the steps of a producer thread inside reserveProducerSpace and Log
ProducerRuns ==
    \/ ReserveLoop
    \/ ReserveBranch
    \/ ReservePublishEnd
    \/ ReserveWrap
    \/ ReserveElse
    \/ ReserveNull
    \/ WriteRecord
    \/ FinishReservation

\* the steps of the consumer thread on this buffer
ConsumerRuns ==
    \/ PeekRead
    \/ PeekEndOfData
    \/ PeekReset
    \/ PeekReturn
    \/ AfterPeek
    \/ ReadRecord
    \/ Consume

SpecFair == Init /\ [][Next]_vars /\ WF_vars(ProducerRuns) /\ WF_vars(ConsumerRuns)

\* the reservation in progress is in the loop of reserveProducerSpaceInternal
Spinning == ppc \in {"loop", "branch", "eod", "wrap", "else"}

\* C15: a blocking reservation never returns nullptr; while the consumer
\* keeps peeking and consuming it leaves the loop with a pointer; and the
\* num_bytes bytes at that pointer are writable: inside storage and holding
\* nothing that is committed and not yet consumed.
C15_BlockingReservationReturns ==
    /\ [](ppc = "null" => ~blocking)
    /\ ((blocking /\ Spinning) ~> ppc = "write")
    /\ []((blocking /\ ppc = "write")
            => /\ producer_pos + num_bytes <= Capacity
               /\ \A i \in Region(producer_pos, num_bytes) :
                     i \notin unconsumed)




(***************************************************************************)
(* The phases of write(), checked under SpecAsmFair.                       *)
(***************************************************************************)
\* the format loop of log_info.cc:159 has run to the end of the format
BodyDone(a) ==
    /\ a.static_log_info # NullInfo
    /\ a.format_index >= a.static_log_info.format_len_

\* the completion of the phases, in the order of write()
PhaseFlags(a) ==
    << a.is_timestamp_writed, a.is_filename_and_linenum_writed,
       a.is_severity_writed, a.is_producer_id_writed, BodyDone(a),
       a.is_end_of_log_writed >>

\* the text of the prefix phases that are complete
CompletedPrefix(a) ==
    (IF a.is_timestamp_writed THEN a.timestamp_str ELSE <<>>)
    \o (IF a.is_filename_and_linenum_writed THEN a.filename_and_linenum
                                            ELSE <<>>)
    \o (IF a.is_severity_writed
           THEN SeverityStr[a.static_log_info.log_level_ + 1] ELSE <<>>)
    \o (IF a.is_producer_id_writed THEN a.producer_id ELSE <<>>)

\* no phase is complete before an earlier one, the text of the complete
\* prefix phases is what was emitted first, and nothing was emitted twice or
\* out of place
PhasesInOrder ==
    /\ \A i, j \in 1..6 :
          (i < j /\ PhaseFlags(la)[j]) => PhaseFlags(la)[i]
    /\ IsPrefix(CompletedPrefix(la), Emitted)
    /\ IsPrefix(Emitted, ReferenceText)

\* C20: however often write() is interrupted by an exhausted region, the
\* phases time stamp, file:line, severity, producer id, body, trailer are
\* emitted in that order, none twice, none before an earlier one is
\* complete, and each of them is emitted: the trailer is reached.
C20_PhasesOnceInOrder ==
    /\ []PhasesInOrder
    /\ <>(\A i \in 1..6 : PhaseFlags(la)[i])


(***************************************************************************)
(* SpecFile: the consumer thread of SpecAsm, and a user thread that calls  *)
(* Logger::SetLogFile on files in every state.                             *)
(***************************************************************************)
\* the descriptor open() returns: the lowest one that is not open
LowestFreeFd(fds) == CHOOSE fd \in 0..(Cardinality(fds)) :
                        fd \notin fds /\ \A g \in 0..(fd - 1) : g \in fds

\* a faulty setLogFileInternal that closes output_fd_ before it has opened
\* the new file; C18 distinguishes it from the one of logger.cc:85-106
SetLogFileClosingFirst(lg, exists, accessible, opens) ==
    LET closed == IF lg.output_fd > 0
                     THEN [lg EXCEPT !.open_fds = @ \ {lg.output_fd}]
                     ELSE lg
        new_fd == LowestFreeFd(closed.open_fds)
    IN IF (exists /\ ~accessible) \/ ~opens
          THEN [logger |-> closed, thrown |-> TRUE]
          ELSE [logger |-> [closed EXCEPT !.open_fds = @ \cup {new_fd},
                                          !.output_fd = new_fd],
                thrown |-> FALSE]

\* Logger::setLogFileInternal(filename): the file exists or not, is
\* readable and writable or not, and open() succeeds or not; the result is
\* the Logger afterwards and whether std::ios_base::failure was thrown
SetLogFileInternal(lg, exists, accessible, opens) ==
    LET new_fd == LowestFreeFd(lg.open_fds)
    IN IF exists /\ ~accessible
          THEN [logger |-> lg, thrown |-> TRUE]
       ELSE IF ~opens
          THEN [logger |-> lg, thrown |-> TRUE]
       ELSE [logger |->
                [lg EXCEPT !.open_fds = (IF lg.output_fd > 0
                                            THEN @ \ {lg.output_fd}
                                            ELSE @) \cup {new_fd},
                           !.output_fd = new_fd],
             thrown |-> FALSE]

\* Logger::SetLogFile, called by a thread that is not the consumer
SetLogFile ==
    /\ main = "running"
    /\ \E exists, accessible, opens \in BOOLEAN :
         LET r == SetLogFileInternal(logger, exists, accessible, opens)
         IN /\ logger' = r.logger
            /\ obs' = [obs EXCEPT
                         !.set_file =
                             [failed |-> (exists /\ ~accessible) \/ ~opens,
                              thrown |-> r.thrown,
                              fd_before |-> logger.output_fd,
                              fd_after |-> r.logger.output_fd,
                              open_after |-> r.logger.open_fds],
                         !.fd_mutators =
                             IF r.logger.output_fd # logger.output_fd
                                \/ r.logger.open_fds # logger.open_fds
                                THEN @ \cup {"caller"} ELSE @]
    /\ UNCHANGED <<bufVars, fmtVars, threads, log_ids, heap, halves,
                   double_buffer_size, ring, main, la, loop>>

NextFile == NextAsm \/ SetLogFile

SpecFile == InitAsm /\ [][NextFile]_vars

\* C18: a SetLogFile call on a file that cannot be read and written, or
\* that open() refuses, throws, and leaves output_fd_ as it was and open.
C18_FailedSetLogFileKeepsDescriptor ==
    (obs.set_file # NullInfo /\ obs.set_file.failed)
        => /\ obs.set_file.thrown
           /\ obs.set_file.fd_after = obs.set_file.fd_before
           /\ obs.set_file.fd_after \in obs.set_file.open_after

\* a call failed after an earlier call had replaced the standard output
C18_Witness ==
    /\ obs.set_file # NullInfo
    /\ obs.set_file.thrown
    /\ obs.set_file.fd_before # STDOUT_FILENO

\* C19: output_fd_ is changed and closed by the consumer thread only, so
\* that the descriptor of a write the consumer has submitted stays open
\* until the write completes.
C19_OnlyConsumerMutatesDescriptor ==
    /\ obs.fd_mutators \subseteq {"consumer"}
    /\ \A i \in ring.inflight : obs.submissions[i].fd \in logger.open_fds


(***************************************************************************)
(* The text of one record, checked under SpecAsm: thread 1 has made one    *)
(* Log call, with the arguments threads[1].args at call site threads[1].cs.*)
(***************************************************************************)
\* write() has emitted the whole record of thread 1
RecordEmitted == la.is_end_of_log_writed

\* the body of a record: the literal chars of the format text (the chars
\* before the terminator) and, for fragment k.., the expansion of the
\* conversion with the arguments as they were passed to Log(); pos is the
\* position in the format text, p the index of the next argument
RECURSIVE BodyText(_, _, _, _, _)
BodyText(info, args, k, pos, p) ==
    IF k > Len(info.format_fragments_)
       THEN SubSeq(info.format_str_, pos + 1, info.format_len_ - 1)
       ELSE LET fragment == info.format_fragments_[k]
                has_width == info.param_types_[p] = DYNAMIC_WIDTH
                pw == IF has_width THEN p + 1 ELSE p
                has_precision == info.param_types_[pw] = DYNAMIC_PRECISION
                pv == IF has_precision THEN pw + 1 ELSE pw
                static_precision ==
                    IF info.param_types_[pv] >= ParamType_STRING
                       THEN info.param_types_[pv] ELSE -1
            IN SubSeq(info.format_str_, pos + 1, fragment.format_pos_)
               \o Snprintf(fragment.conversion_type_,
                           IF has_width THEN args[p][1] ELSE -1,
                           IF has_precision THEN args[pw][1]
                                            ELSE static_precision,
                           args[pv])
               \o BodyText(info, args, k + 1,
                           fragment.format_pos_ + fragment.specifier_length_,
                           pv + 1)

\* C21: the bytes emitted for one record are the prefix
\* "<timestamp> <filename>:<line> [<SEVERITY>][<producer_id>]: ", then the
\* body (only literal chars of the format text and expansions), then CR LF,
\* with no other byte (such as the format string's terminator) in between.
C21_RecordIsPrefixBodyTrailer ==
    RecordEmitted =>
        Emitted = CompletedPrefix(la)
                  \o BodyText(CallSites[threads[1].cs], threads[1].args,
                              1, 0, 1)
                  \o <<13, 10>>


(***************************************************************************)
(* The format analyzer (log_info.h:378-1234), which the OLOG macro runs on *)
(* the format string of a call site when the program is built.  A format   *)
(* string is the char array of the literal, its terminating NUL included;  *)
(* a function either returns a value or throws std::invalid_argument.      *)
(***************************************************************************)
INVALID == -6

Returned(value) == [thrown |-> FALSE, value |-> value]
Thrown == [thrown |-> TRUE, value |-> 0]

\* fmt[index]; every walk stops at the terminating NUL
At(fmt, index) == IF index < Len(fmt) THEN fmt[index + 1] ELSE 0

\* d i u o x X f F e E g G a A c p % s n
IsConversionSpecifier(c) ==
    c \in {100, 105, 117, 111, 120, 88, 102, 70, 101, 69, 103, 71, 97, 65,
           99, 112, 37, 115, 110}

\* - + space # 0
IsFlag(c) == c \in {45, 43, 32, 35, 48}

\* h l j z t L
IsLength(c) == c \in {104, 108, 106, 122, 116, 76}

IsDigit(c) == c >= 48 /\ c <= 57

\* "while (IsFlag(fmt[index])) ++index;" and its like
RECURSIVE SkipFlags(_, _)
SkipFlags(fmt, index) ==
    IF IsFlag(At(fmt, index)) THEN SkipFlags(fmt, index + 1) ELSE index

RECURSIVE SkipDigits(_, _)
SkipDigits(fmt, index) ==
    IF IsDigit(At(fmt, index)) THEN SkipDigits(fmt, index + 1) ELSE index

RECURSIVE SkipLength(_, _)
SkipLength(fmt, index) ==
    IF IsLength(At(fmt, index)) THEN SkipLength(fmt, index + 1) ELSE index

\* "precision = precision * 10 + (fmt[index] - '0')" over the digits
RECURSIVE StaticPrecision(_, _, _)
StaticPrecision(fmt, index, precision) ==
    IF IsDigit(At(fmt, index))
       THEN StaticPrecision(fmt, index + 1,
                            precision * 10 + (At(fmt, index) - 48))
       ELSE precision

\* a walk over one specifier that lets the conversion n through
ScanSpecifierAllowingN(fmt, index) ==
    LET flags_end == SkipFlags(fmt, index)
        dynamic_width == At(fmt, flags_end) = 42
        width_end == IF dynamic_width THEN flags_end + 1
                     ELSE SkipDigits(fmt, flags_end)
        has_precision == At(fmt, width_end) = 46
        dynamic_precision == has_precision /\ At(fmt, width_end + 1) = 42
        precision_end == IF ~has_precision THEN width_end
                         ELSE IF dynamic_precision THEN width_end + 2
                         ELSE SkipDigits(fmt, width_end + 1)
        conversion == SkipLength(fmt, precision_end)
    IN [dynamic_width |-> dynamic_width,
        dynamic_precision |-> dynamic_precision,
        precision |-> IF has_precision /\ ~dynamic_precision
                         THEN StaticPrecision(fmt, width_end + 1, 0)
                         ELSE -1,
        length_pos |-> precision_end,
        index |-> conversion,
        specifier |-> At(fmt, conversion),
        rejected |-> ~IsConversionSpecifier(At(fmt, conversion))]

\* The walk over one specifier that every analyzer function repeats, from
\* index, the char after a '%' that is no escape: flags, width, precision,
\* length, and the check of the conversion specifier.  length_pos is the
\* index of the length modifiers, index the one of the conversion char.
ScanSpecifier(fmt, index) ==
    LET flags_end == SkipFlags(fmt, index)
        dynamic_width == At(fmt, flags_end) = 42
        width_end == IF dynamic_width THEN flags_end + 1
                     ELSE SkipDigits(fmt, flags_end)
        has_precision == At(fmt, width_end) = 46
        dynamic_precision == has_precision /\ At(fmt, width_end + 1) = 42
        precision_end == IF ~has_precision THEN width_end
                         ELSE IF dynamic_precision THEN width_end + 2
                         ELSE SkipDigits(fmt, width_end + 1)
        conversion == SkipLength(fmt, precision_end)
    IN [dynamic_width |-> dynamic_width,
        dynamic_precision |-> dynamic_precision,
        precision |-> IF has_precision /\ ~dynamic_precision
                         THEN StaticPrecision(fmt, width_end + 1, 0)
                         ELSE -1,
        length_pos |-> precision_end,
        index |-> conversion,
        specifier |-> At(fmt, conversion),
        rejected |-> \/ ~IsConversionSpecifier(At(fmt, conversion))
                     \/ At(fmt, conversion) = 110]

\* a GetParamInfo in which the * of a width takes no parameter
RECURSIVE GetParamInfoFromWidthUncounted(_, _, _)
GetParamInfoFromWidthUncounted(fmt, index, param_num) ==
    IF ~(index < Len(fmt)) THEN Returned(INVALID)
    ELSE IF At(fmt, index) # 37
            THEN GetParamInfoFromWidthUncounted(fmt, index + 1, param_num)
    ELSE IF At(fmt, index + 1) = 37
            THEN GetParamInfoFromWidthUncounted(fmt, index + 2, param_num)
    ELSE LET s == ScanSpecifier(fmt, index + 1)
             after_width == param_num
             after_precision == IF s.dynamic_precision THEN after_width - 1
                                                       ELSE after_width
         IN IF s.dynamic_width /\ param_num = 0
               THEN Returned(DYNAMIC_WIDTH)
            ELSE IF s.dynamic_precision /\ after_width = 0
               THEN Returned(DYNAMIC_PRECISION)
            ELSE IF s.rejected THEN Thrown
            ELSE IF after_precision > 0
               THEN GetParamInfoFromWidthUncounted(fmt, s.index + 1,
                                                   after_precision - 1)
            ELSE IF s.specifier # 115 THEN Returned(NON_STRING)
            ELSE IF s.dynamic_precision
               THEN Returned(STRING_WITH_DYNAMIC_PRECISION)
            ELSE IF s.precision = -1
               THEN Returned(STRING_WITH_NO_PRECISION)
            ELSE Returned(s.precision)

\* GetParamInfo(fmt, param_num), from index on
RECURSIVE GetParamInfoFrom(_, _, _)
GetParamInfoFrom(fmt, index, param_num) ==
    IF ~(index < Len(fmt)) THEN Returned(INVALID)
    ELSE IF At(fmt, index) # 37
            THEN GetParamInfoFrom(fmt, index + 1, param_num)
    ELSE IF At(fmt, index + 1) = 37
            THEN GetParamInfoFrom(fmt, index + 2, param_num)
    ELSE LET s == ScanSpecifier(fmt, index + 1)
             after_width == IF s.dynamic_width THEN param_num - 1
                                               ELSE param_num
             after_precision == IF s.dynamic_precision THEN after_width - 1
                                                       ELSE after_width
         IN IF s.dynamic_width /\ param_num = 0
               THEN Returned(DYNAMIC_WIDTH)
            ELSE IF s.dynamic_precision /\ after_width = 0
               THEN Returned(DYNAMIC_PRECISION)
            ELSE IF s.rejected THEN Thrown
            ELSE IF after_precision > 0
               THEN GetParamInfoFrom(fmt, s.index + 1, after_precision - 1)
            ELSE IF s.specifier # 115 THEN Returned(NON_STRING)
            ELSE IF s.dynamic_precision
               THEN Returned(STRING_WITH_DYNAMIC_PRECISION)
            ELSE IF s.precision = -1
               THEN Returned(STRING_WITH_NO_PRECISION)
            ELSE Returned(s.precision)

GetParamInfo(fmt, param_num) == GetParamInfoFrom(fmt, 0, param_num)

\* "while (GetParamInfo(fmt, num_parameters) != INVALID) num_parameters++;"
RECURSIVE CountParameters(_, _)
CountParameters(fmt, num_parameters) ==
    LET info == GetParamInfo(fmt, num_parameters)
    IN IF info.thrown THEN Thrown
       ELSE IF info.value = INVALID THEN Returned(num_parameters)
       ELSE CountParameters(fmt, num_parameters + 1)

FormatParametersCount(fmt) == CountParameters(fmt, 0)

\* an array built from the calls f[1], ..: throws if one of them throws
ArrayOf(f) ==
    IF \E i \in DOMAIN f : f[i].thrown THEN Thrown
    ELSE Returned([i \in DOMAIN f |-> f[i].value])

AnalyzeFormatParameters(num_param, fmt) ==
    ArrayOf([i \in 1..num_param |-> GetParamInfo(fmt, i - 1)])

\* the counters of GetConversionType
NoLength ==
    [h_cnt |-> 0, l_cnt |-> 0, L_flag |-> FALSE, j_flag |-> FALSE,
     z_flag |-> FALSE, t_flag |-> FALSE]

\* the switch in "while (IsLength(fmt[index]))", over fmt[index..end-1]
RECURSIVE CountLength(_, _, _, _)
CountLength(fmt, index, end, cnt) ==
    IF ~(index < end) THEN cnt
    ELSE LET c == At(fmt, index)
         IN CountLength(fmt, index + 1, end,
                [cnt EXCEPT !.L_flag = @ \/ c = 76,
                            !.h_cnt = IF c = 104 THEN @ + 1 ELSE @,
                            !.j_flag = @ \/ c = 106,
                            !.l_cnt = IF c = 108 THEN @ + 1 ELSE @,
                            !.t_flag = @ \/ c = 116,
                            !.z_flag = @ \/ c = 122])

\* the ConversionType of specifier under the counters (lines 671-737)
ClassifyConversion(specifier, cnt) ==
    IF specifier \in {100, 105}
       THEN IF cnt.h_cnt >= 2 THEN "signed_char_t"
            ELSE IF cnt.l_cnt >= 2 THEN "long_long_int_t"
            ELSE IF cnt.h_cnt >= 1 THEN "short_int_t"
            ELSE IF cnt.l_cnt >= 1 THEN "long_int_t"
            ELSE IF cnt.j_flag THEN "intmax_t_t"
            ELSE IF cnt.z_flag THEN "size_t_t"
            ELSE IF cnt.t_flag THEN "ptrdiff_t_t"
            ELSE "int_t"
    ELSE IF specifier \in {117, 111, 120, 88}
       THEN IF cnt.h_cnt >= 2 THEN "unsigned_char_t"
            ELSE IF cnt.l_cnt >= 2 THEN "unsigned_long_long_int_t"
            ELSE IF cnt.h_cnt >= 1 THEN "unsigned_short_int_t"
            ELSE IF cnt.l_cnt >= 1 THEN "unsigned_long_int_t"
            ELSE IF cnt.j_flag THEN "uintmax_t_t"
            ELSE IF cnt.z_flag THEN "size_t_t"
            ELSE IF cnt.t_flag THEN "ptrdiff_t_t"
            ELSE "unsigned_int_t"
    ELSE IF specifier = 115
       THEN IF cnt.l_cnt >= 1 THEN "const_wchar_t_ptr_t"
            ELSE "const_char_ptr_t"
    ELSE IF specifier = 112 THEN "const_void_ptr_t"
    ELSE IF specifier \in {102, 70, 101, 69, 103, 71, 97, 65}
       THEN IF cnt.L_flag THEN "long_double_t" ELSE "double_t"
    ELSE IF specifier = 99
       THEN IF cnt.l_cnt >= 1 THEN "wint_t_t" ELSE "int_t"
    ELSE "NONE"

\* a GetConversionType that keeps the counters of the specifiers it skips
RECURSIVE GetConversionTypeFromKeepingCounters(_, _, _, _)
GetConversionTypeFromKeepingCounters(fmt, index, conversion_num, cnt) ==
    IF ~(index < Len(fmt)) THEN Returned(ClassifyConversion(0, cnt))
    ELSE IF At(fmt, index) # 37
            THEN GetConversionTypeFromKeepingCounters(fmt, index + 1,
                                                      conversion_num, cnt)
    ELSE IF At(fmt, index + 1) = 37
            THEN GetConversionTypeFromKeepingCounters(fmt, index + 2,
                                                      conversion_num, cnt)
    ELSE LET s == ScanSpecifier(fmt, index + 1)
             counted == CountLength(fmt, s.length_pos, s.index, cnt)
         IN IF s.rejected THEN Thrown
            ELSE IF conversion_num > 0
               THEN GetConversionTypeFromKeepingCounters(fmt, s.index + 1,
                        conversion_num - 1, counted)
            ELSE Returned(ClassifyConversion(s.specifier, counted))

\* GetConversionType(fmt, conversion_num), from index on with the counters
\* cnt; at the end of the string specifier is still 0
RECURSIVE GetConversionTypeFrom(_, _, _, _)
GetConversionTypeFrom(fmt, index, conversion_num, cnt) ==
    IF ~(index < Len(fmt)) THEN Returned(ClassifyConversion(0, cnt))
    ELSE IF At(fmt, index) # 37
            THEN GetConversionTypeFrom(fmt, index + 1, conversion_num, cnt)
    ELSE IF At(fmt, index + 1) = 37
            THEN GetConversionTypeFrom(fmt, index + 2, conversion_num, cnt)
    ELSE LET s == ScanSpecifier(fmt, index + 1)
         IN IF s.rejected THEN Thrown
            ELSE IF conversion_num > 0
               THEN GetConversionTypeFrom(fmt, s.index + 1,
                                          conversion_num - 1, NoLength)
            ELSE Returned(ClassifyConversion(s.specifier,
                     CountLength(fmt, s.length_pos, s.index, cnt)))

GetConversionType(fmt, conversion_num) ==
    GetConversionTypeFrom(fmt, 0, conversion_num, NoLength)

\* ConversionSpecifiersCount(fmt), from index on
RECURSIVE CountSpecifiersFrom(_, _, _)
CountSpecifiersFrom(fmt, index, count) ==
    IF ~(index < Len(fmt)) THEN Returned(count)
    ELSE IF At(fmt, index) # 37
            THEN CountSpecifiersFrom(fmt, index + 1, count)
    ELSE IF At(fmt, index + 1) = 37
            THEN CountSpecifiersFrom(fmt, index + 2, count)
    ELSE LET s == ScanSpecifier(fmt, index + 1)
         IN IF s.rejected THEN Thrown
            ELSE CountSpecifiersFrom(fmt, s.index + 1, count + 1)

ConversionSpecifiersCount(fmt) == CountSpecifiersFrom(fmt, 0, 0)

\* SizeConversionStorageNeeds(fmt), from index on: need_size counts the
\* chars of the specifiers, count the specifiers
RECURSIVE StorageNeedsFrom(_, _, _, _)
StorageNeedsFrom(fmt, index, need_size, count) ==
    IF ~(index < Len(fmt)) THEN Returned(need_size + count)
    ELSE IF At(fmt, index) # 37
            THEN StorageNeedsFrom(fmt, index + 1, need_size, count)
    ELSE IF At(fmt, index + 1) = 37
            THEN StorageNeedsFrom(fmt, index + 2, need_size, count)
    ELSE LET s == ScanSpecifier(fmt, index + 1)
         IN IF s.rejected THEN Thrown
            ELSE StorageNeedsFrom(fmt, s.index + 1,
                                  need_size + (s.index + 1 - index),
                                  count + 1)

\* a SizeConversionStorageNeeds that leaves no room for the NULs
SizeConversionStorageNeedsWithoutNul(fmt) ==
    LET needs == StorageNeedsFrom(fmt, 0, 0, 0)
    IN IF needs.thrown THEN Thrown
       ELSE Returned(needs.value - ConversionSpecifiersCount(fmt).value)

SizeConversionStorageNeeds(fmt) == StorageNeedsFrom(fmt, 0, 0, 0)

\* GetConversionSpecifierChar(fmt, num), from index on: the chars before
\* the conversion char are handed out before the specifier is checked
RECURSIVE SpecifierCharFrom(_, _, _)
SpecifierCharFrom(fmt, index, num) ==
    IF ~(index < Len(fmt)) THEN Returned(0)
    ELSE IF At(fmt, index) # 37
            THEN SpecifierCharFrom(fmt, index + 1, num)
    ELSE IF At(fmt, index + 1) = 37
            THEN SpecifierCharFrom(fmt, index + 2, num)
    ELSE LET s == ScanSpecifier(fmt, index + 1)
             before == s.index - index
         IN IF num < before THEN Returned(At(fmt, index + num))
            ELSE IF s.rejected THEN Thrown
            ELSE IF num = before THEN Returned(s.specifier)
            ELSE IF num = before + 1 THEN Returned(0)
            ELSE SpecifierCharFrom(fmt, s.index + 1, num - before - 2)

GetConversionSpecifierChar(fmt, num) == SpecifierCharFrom(fmt, 0, num)

MakeConversionStorage(storage_size, fmt) ==
    ArrayOf([i \in 1..storage_size |-> GetConversionSpecifierChar(fmt, i - 1)])

\* GetConversionSpecifierPosition(fmt, num), from index on
RECURSIVE SpecifierPositionFrom(_, _, _)
SpecifierPositionFrom(fmt, index, num) ==
    IF ~(index < Len(fmt)) THEN Returned(index)
    ELSE IF At(fmt, index) # 37
            THEN SpecifierPositionFrom(fmt, index + 1, num)
    ELSE IF At(fmt, index + 1) = 37
            THEN SpecifierPositionFrom(fmt, index + 2, num)
    ELSE IF num = 0 THEN Returned(index)
    ELSE LET s == ScanSpecifier(fmt, index + 1)
         IN IF s.rejected THEN Thrown
            ELSE SpecifierPositionFrom(fmt, s.index + 1, num - 1)

GetConversionSpecifierPosition(fmt, num) == SpecifierPositionFrom(fmt, 0, num)

\* GetConversionSpecifierLength(conversion_storage, num), from index on
RECURSIVE SpecifierLengthFrom(_, _, _, _)
SpecifierLengthFrom(conversion_storage, index, num, len) ==
    IF ~(index < Len(conversion_storage)) THEN len
    ELSE IF conversion_storage[index + 1] = 0
            THEN IF num = 0 THEN len
                 ELSE SpecifierLengthFrom(conversion_storage, index + 1, num - 1, 0)
    ELSE SpecifierLengthFrom(conversion_storage, index + 1, num, len + 1)

GetConversionSpecifierLength(conversion_storage, num) ==
    SpecifierLengthFrom(conversion_storage, 0, num, 0)

\* GetConversionSpecifierPositionInStorage(conversion_storage, num), from index on
RECURSIVE PositionInStorageFrom(_, _, _)
PositionInStorageFrom(conversion_storage, index, num) ==
    IF ~(index < Len(conversion_storage)) THEN index
    ELSE IF conversion_storage[index + 1] # 37
            THEN PositionInStorageFrom(conversion_storage, index + 1, num)
    ELSE IF num = 0 THEN index
    ELSE PositionInStorageFrom(conversion_storage, index + 1, num - 1)

GetConversionSpecifierPositionInStorage(conversion_storage, num) ==
    PositionInStorageFrom(conversion_storage, 0, num)

\* GetFormatFragments<num_format_fragments>(fmt, conversion_storage)
GetFormatFragments(num_format_fragments, fmt, conversion_storage) ==
    LET type == [i \in 1..num_format_fragments |->
                    GetConversionType(fmt, i - 1)]
        pos == [i \in 1..num_format_fragments |->
                   GetConversionSpecifierPosition(fmt, i - 1)]
    IN IF \E i \in 1..num_format_fragments : type[i].thrown \/ pos[i].thrown
          THEN Thrown
          ELSE Returned([i \in 1..num_format_fragments |->
                  [conversion_type_ |-> type[i].value,
                   specifier_length_ |->
                       GetConversionSpecifierLength(conversion_storage, i - 1),
                   format_pos_ |-> pos[i].value,
                   storage_pos_ |->
                       GetConversionSpecifierPositionInStorage(conversion_storage,
                                                               i - 1)]])


(***************************************************************************)
(* The escape %% in the record of SpecAsm.                                 *)
(***************************************************************************)
\* the format text of call site cs: the chars before the terminator
FormatText(cs) ==
    SubSeq(CallSites[cs].format_str_, 1, CallSites[cs].format_len_ - 1)

\* the text holds the escape %%
HasEscape(text) ==
    \E i \in 1..(Len(text) - 1) : text[i] = 37 /\ text[i + 1] = 37

\* the text with a single % in the place of every escape %%
RECURSIVE Unescape(_)
Unescape(text) ==
    IF Len(text) < 2 THEN text
    ELSE IF text[1] = 37 /\ text[2] = 37
            THEN <<37>> \o Unescape(SubSeq(text, 3, Len(text)))
    ELSE <<text[1]>> \o Unescape(Tail(text))

NotNul(c) == c # 0

\* the chars emitted between the prefix and the trailer of the record,
\* a terminator of the format string among them left aside
EmittedBody ==
    SelectSeq(SubSeq(Emitted, Len(CompletedPrefix(la)) + 1, Len(Emitted) - 2),
              NotNul)

\* C22: for a format string containing %%, the analyzer counts no
\* conversion and no parameter for the escape, and the assembled body has a
\* single % at that place.
C22_EscapeYieldsSinglePercent ==
    (/\ RecordEmitted
     /\ CallSites[threads[1].cs].num_conversions_ = 0
     /\ HasEscape(FormatText(threads[1].cs)))
        => /\ ConversionSpecifiersCount(CallSites[threads[1].cs].format_str_)
                = Returned(0)
           /\ FormatParametersCount(CallSites[threads[1].cs].format_str_)
                = Returned(0)
           /\ EmittedBody = Unescape(FormatText(threads[1].cs))


(***************************************************************************)
(* A string conversion whose precision is 0, in the record of SpecAsm.     *)
(***************************************************************************)
\* the call of thread 1 has one conversion, of a string, and the precision
\* that applies to it is 0: the static one of "%.0s", or the argument
\* passed for the * of "%.*s"
ZeroPrecisionCall ==
    LET info == CallSites[threads[1].cs]
    IN \/ info.param_types_ = <<ParamType_STRING>>
       \/ /\ info.param_types_ = <<DYNAMIC_PRECISION,
                                   STRING_WITH_DYNAMIC_PRECISION>>
          /\ threads[1].args[1] = <<0>>

\* the bytes stored for the string argument, the last one of the call
StringSegment(rec) ==
    SubSeq(rec.arg_data, rec.info_size_ - HeaderSize - SizeofSizeT,
           Len(rec.arg_data))

\* the format text after the conversion, the only one of the call
TextAfterConversion(cs) ==
    SubSeq(FormatText(cs),
           CallSites[cs].format_fragments_[1].format_pos_
           + CallSites[cs].format_fragments_[1].specifier_length_ + 1,
           Len(FormatText(cs)))

\* write() has come to the body of the record
BodyReached == la.static_log_info # NullInfo /\ la.is_producer_id_writed

\* C23: "%.0s", and "%.*s" with the dynamic precision 0, store a string
\* segment of length zero and add no byte to the body, and the assembler
\* goes on with the rest of the record: it does not roll back and does not
\* report the output full for the zero bytes.
C23_ZeroPrecisionStringIsPassed ==
    ZeroPrecisionCall =>
        /\ StringSegment(obs.committed[1][1])
              = StoreInt(0, SizeofSizeT) \o <<0>>
        /\ BodyReached =>
              /\ la.conversion_index = 1
              /\ obs.decoded = << <<>> >>
              /\ la.format_index >=
                    la.static_log_info.format_fragments_[1].format_pos_
                    + la.static_log_info.format_fragments_[1].specifier_length_
        /\ RecordEmitted => EmittedBody = TextAfterConversion(threads[1].cs)

\* the conversion was passed with a single free byte left in the region,
\* and the write went on to the text after it
C23_Witness ==
    /\ ZeroPrecisionCall
    /\ BodyReached
    /\ la.conversion_index = 1
    /\ GetFreeBytes(la) = 1


(***************************************************************************)
(* The producer id of the records, checked under SpecLogger.               *)
(***************************************************************************)
\* the consumer has loaded a record of the staging buffer it is consuming
RecordLoaded == loop.pc = "write" /\ la.static_log_info # NullInfo

\* C24: every record of a producer thread is emitted with the same producer
\* id, the zero-based buffer index given to the thread at its first use of
\* the logger (the buffer_id its staging buffer was made with).
C24_ProducerIdIsBufferId ==
    RecordLoaded =>
        la.producer_id
            = <<91>> \o StdToString(threads[loop.consuming_buffer].buffer_id)
              \o <<93, 58, 32>>


RECURSIVE OriginalValues(_, _, _)
OriginalValues(param_types, args, i) ==
    IF i > Len(args) THEN <<>>
    ELSE IF param_types[i] \in {DYNAMIC_WIDTH, DYNAMIC_PRECISION}
            THEN OriginalValues(param_types, args, i + 1)
    ELSE IF param_types[i] >= ParamType_STRING
            THEN <<SubSeq(args[i], 1, Min(param_types[i], Len(args[i])))>>
                 \o OriginalValues(param_types, args, i + 1)
    ELSE IF param_types[i] = STRING_WITH_DYNAMIC_PRECISION
            THEN <<SubSeq(args[i], 1, Min(args[i - 1][1], Len(args[i])))>>
                 \o OriginalValues(param_types, args, i + 1)
    ELSE <<args[i]>> \o OriginalValues(param_types, args, i + 1)

\* C26: encoding the arguments of a call and decoding them in the assembler
\* yields the original value of every non-string argument and, for a
\* string, the original chars cut to the static or dynamic precision that
\* applied when it was encoded.
C26_DecodedValuesAreOriginal ==
    RecordEmitted =>
        obs.decoded = OriginalValues(CallSites[threads[1].cs].param_types_,
                                     threads[1].args, 1)


(***************************************************************************)
(* The analysis of one call site.  The OLOG macro (olog.h:102-149) defines *)
(* six constexpr variables from format_str, one after the other; a throw   *)
(* in a constant expression is a compile error, so that nothing is defined *)
(* for the call site.  The unit tests call the analyzer functions with an  *)
(* index on their own (tests/log_info_test.cc).                            *)
(***************************************************************************)
MaxPieces == 2
MaxIndex == 3

\* x  %%  %d  %s  %.2s  %.*s  %*d  %*.*s  %-5ld  %n  %q  %
Pieces ==
    { <<120>>, <<37, 37>>, <<37, 100>>, <<37, 115>>, <<37, 46, 50, 115>>,
      <<37, 46, 42, 115>>, <<37, 42, 100>>, <<37, 42, 46, 42, 115>>,
      <<37, 45, 53, 108, 100>>, <<37, 110>>, <<37, 113>>, <<37>> }

\* the texts made of at most n pieces
RECURSIVE Concatenations(_)
Concatenations(n) ==
    IF n = 0 THEN { <<>> }
    ELSE LET shorter == Concatenations(n - 1)
         IN shorter \cup { text \o piece : text \in shorter, piece \in Pieces }

\* (none) hh h l ll j z t L
LengthModifiers ==
    { <<>>, <<104, 104>>, <<104>>, <<108>>, <<108, 108>>, <<106>>, <<122>>,
      <<116>>, <<76>> }

\* d i u o x X f F e E g G a A c s p
ConversionLetters ==
    {100, 105, 117, 111, 120, 88, 102, 70, 101, 69, 103, 71, 97, 65, 99,
     115, 112}

\* nothing, %hhd, %lld, %Lf in front of the specifier
EarlierSpecifiers ==
    { <<>>, <<37, 104, 104, 100>>, <<37, 108, 108, 100>>, <<37, 76, 102>> }

\* one specifier for every length modifier and conversion letter
TableFormats ==
    { earlier \o <<37>> \o modifier \o <<letter>> :
        earlier \in EarlierSpecifiers,
        modifier \in LengthModifiers, letter \in ConversionLetters }

\* the char arrays of the literals: the text and its terminating NUL
Formats ==
    { text \o <<0>> : text \in Concatenations(MaxPieces) \cup TableFormats }

NoCall == [function |-> "none", num |-> 0, result |-> Returned(0)]

\* step is the variable of the macro that is defined next
NotAnalyzed ==
    [step |-> "num_parameters", num_parameters |-> 0, num_conversions |-> 0,
     conversion_storage_size |-> 0, param_types |-> <<>>,
     conversion_storage |-> <<>>, format_fragments |-> <<>>,
     call |-> NoCall]

InitFormat ==
    /\ NoBuffer
    /\ NoRun
    /\ format_str \in Formats
    /\ analysis = NotAnalyzed
    /\ param_sizes = <<>>

\* "constexpr ... variable = result;": analysis once the initializer has
\* been evaluated
Define(variable, result, next) ==
    IF result.thrown THEN [analysis EXCEPT !.step = "rejected"]
    ELSE [analysis EXCEPT ![variable] = result.value, !.step = next]

DefineNumParameters ==
    /\ analysis.step = "num_parameters"
    /\ analysis' = Define("num_parameters",
                          FormatParametersCount(format_str),
                          "num_conversions")
    /\ UNCHANGED <<bufVars, runVars, format_str, param_sizes>>

DefineNumConversions ==
    /\ analysis.step = "num_conversions"
    /\ analysis' = Define("num_conversions",
                          ConversionSpecifiersCount(format_str),
                          "conversion_storage_size")
    /\ UNCHANGED <<bufVars, runVars, format_str, param_sizes>>

DefineConversionStorageSize ==
    /\ analysis.step = "conversion_storage_size"
    /\ analysis' = Define("conversion_storage_size",
                          SizeConversionStorageNeeds(format_str),
                          "param_types")
    /\ UNCHANGED <<bufVars, runVars, format_str, param_sizes>>

DefineParamTypes ==
    /\ analysis.step = "param_types"
    /\ analysis' = Define("param_types",
                          AnalyzeFormatParameters(analysis.num_parameters,
                                                  format_str),
                          "conversion_storage")
    /\ UNCHANGED <<bufVars, runVars, format_str, param_sizes>>

DefineConversionStorage ==
    /\ analysis.step = "conversion_storage"
    /\ analysis' = Define("conversion_storage",
                          MakeConversionStorage(
                              analysis.conversion_storage_size, format_str),
                          "format_fragments")
    /\ UNCHANGED <<bufVars, runVars, format_str, param_sizes>>

DefineFormatFragments ==
    /\ analysis.step = "format_fragments"
    /\ analysis' = Define("format_fragments",
                          GetFormatFragments(analysis.num_conversions,
                                             format_str,
                                             analysis.conversion_storage),
                          "Log")
    /\ UNCHANGED <<bufVars, runVars, format_str, param_sizes>>

\* the functions that walk the whole string, and those that take an index
WholeStringFunctions ==
    {"FormatParametersCount", "ConversionSpecifiersCount",
     "SizeConversionStorageNeeds"}

IndexedFunctions ==
    {"GetParamInfo", "GetConversionType", "GetConversionSpecifierChar",
     "GetConversionSpecifierPosition"}

AnalyzerCall(function, num) ==
    CASE function = "FormatParametersCount" ->
            FormatParametersCount(format_str)
      [] function = "ConversionSpecifiersCount" ->
            ConversionSpecifiersCount(format_str)
      [] function = "SizeConversionStorageNeeds" ->
            SizeConversionStorageNeeds(format_str)
      [] function = "GetParamInfo" -> GetParamInfo(format_str, num)
      [] function = "GetConversionType" -> GetConversionType(format_str, num)
      [] function = "GetConversionSpecifierChar" ->
            GetConversionSpecifierChar(format_str, num)
      [] function = "GetConversionSpecifierPosition" ->
            GetConversionSpecifierPosition(format_str, num)

\* a call of one analyzer function on format_str, as a test makes it; the
\* run keeps the result of one call, made after the macro
CallAnalyzer ==
    \E function \in WholeStringFunctions \cup IndexedFunctions,
       num \in 0..MaxIndex :
        /\ analysis.step \in {"Log", "rejected"}
        /\ analysis.call.function = "none"
        /\ function \in WholeStringFunctions => num = 0
        /\ analysis' =
              [analysis EXCEPT !.call =
                  [function |-> function, num |-> num,
                   result |-> AnalyzerCall(function, num)]]
        /\ UNCHANGED <<bufVars, runVars, format_str, param_sizes>>

NextFormat ==
    \/ DefineNumParameters
    \/ DefineNumConversions
    \/ DefineConversionStorageSize
    \/ DefineParamTypes
    \/ DefineConversionStorage
    \/ DefineFormatFragments
    \/ CallAnalyzer

SpecFormat == InitFormat /\ [][NextFormat]_vars

\* the conversion specifiers of fmt from index on as the grammar
\*     '%' flag* width? ('.' precision)? length? conversion
\* reads them, left to right, up to and with the first one whose conversion
\* is none of d i u o x X f F e E g G a A c p s
RECURSIVE SpecifiersFrom(_, _)
SpecifiersFrom(fmt, index) ==
    IF ~(index < Len(fmt)) THEN <<>>
    ELSE IF At(fmt, index) # 37 THEN SpecifiersFrom(fmt, index + 1)
    ELSE IF At(fmt, index + 1) = 37 THEN SpecifiersFrom(fmt, index + 2)
    ELSE LET s == ScanSpecifier(fmt, index + 1)
             valid == s.specifier \in ConversionLetters
         IN << [format_pos |-> index,
                length |-> s.index + 1 - index,
                text |-> SubSeq(fmt, index + 1, s.index + 1),
                modifier |-> SubSeq(fmt, s.length_pos + 1, s.index),
                letter |-> s.specifier,
                dynamic_width |-> s.dynamic_width,
                dynamic_precision |-> s.dynamic_precision,
                precision |-> s.precision,
                valid |-> valid] >>
            \o (IF valid THEN SpecifiersFrom(fmt, s.index + 1) ELSE <<>>)

Specifiers == SpecifiersFrom(format_str, 0)

\* format_str is a valid format string
ValidFormat == \A k \in DOMAIN Specifiers : Specifiers[k].valid

\* the macro has defined variable
Defined(variable) ==
    LET order == <<"num_parameters", "num_conversions",
                   "conversion_storage_size", "param_types",
                   "conversion_storage", "format_fragments", "Log">>
        at(step) == CHOOSE i \in DOMAIN order : order[i] = step
    IN analysis.step # "rejected" /\ at(variable) < at(analysis.step)

Called(function) == analysis.call.function = function


(***************************************************************************)
(* The conversion storage of a call site.                                  *)
(***************************************************************************)
\* the tokens of chars that a NUL ends, token being the one under way
RECURSIVE TokensFrom(_, _)
TokensFrom(chars, token) ==
    IF chars = <<>> THEN <<>>
    ELSE IF Head(chars) = 0 THEN <<token>> \o TokensFrom(Tail(chars), <<>>)
    ELSE TokensFrom(Tail(chars), Append(token, Head(chars)))

\* the sum of (specifier length + 1) over specifiers
RECURSIVE SumOfLengthsPlusOne(_)
SumOfLengthsPlusOne(specifiers) ==
    IF specifiers = <<>> THEN 0
    ELSE Head(specifiers).length + 1 + SumOfLengthsPlusOne(Tail(specifiers))

\* C27: for a format string that SizeConversionStorageNeeds accepts, the
\* array MakeConversionStorage builds has as many chars as the sum of
\* (specifier length + 1) over the specifiers of the string, and its k-th
\* NUL-terminated token is the k-th specifier of the string, char by char,
\* with the leading %.
C27_StorageHoldsEverySpecifier ==
    /\ ( /\ Called("SizeConversionStorageNeeds")
         /\ ~analysis.call.result.thrown ) =>
            /\ ValidFormat
            /\ analysis.call.result.value = SumOfLengthsPlusOne(Specifiers)
    /\ Defined("conversion_storage") =>
          LET tokens == TokensFrom(analysis.conversion_storage, <<>>)
          IN /\ ValidFormat
             /\ Len(analysis.conversion_storage)
                   = SumOfLengthsPlusOne(Specifiers)
             /\ Len(tokens) = Len(Specifiers)
             /\ \A k \in DOMAIN Specifiers :
                   /\ tokens[k] = Specifiers[k].text
                   /\ tokens[k][1] = 37
                   /\ tokens[k]
                         = SubSeq(format_str, Specifiers[k].format_pos + 1,
                                  Specifiers[k].format_pos + Len(tokens[k]))

\* "%-5ld%.2s" has been analyzed
C27_Witness ==
    /\ format_str = <<37, 45, 53, 108, 100, 37, 46, 50, 115, 0>>
    /\ analysis.step = "Log"
    /\ analysis.conversion_storage
          = <<37, 45, 53, 108, 100, 0, 37, 46, 50, 115, 0>>


(***************************************************************************)
(* The parameter slots of a call site.                                     *)
(***************************************************************************)
\* the slots of the * of a specifier
Stars(specifier) ==
    (IF specifier.dynamic_width THEN <<DYNAMIC_WIDTH>> ELSE <<>>)
    \o (IF specifier.dynamic_precision THEN <<DYNAMIC_PRECISION>> ELSE <<>>)

\* the slots of the specifiers, left to right: the * of the width, the *
\* of the precision, the conversion
RECURSIVE SlotsOf(_)
SlotsOf(specifiers) ==
    IF specifiers = <<>> THEN <<>>
    ELSE LET first == Head(specifiers)
         IN Stars(first)
            \o << IF first.letter # 115 THEN NON_STRING
                  ELSE IF first.dynamic_precision
                     THEN STRING_WITH_DYNAMIC_PRECISION
                  ELSE IF first.precision = -1 THEN STRING_WITH_NO_PRECISION
                  ELSE ParamType_STRING + first.precision >>
            \o SlotsOf(Tail(specifiers))

Slots == SlotsOf(Specifiers)

\* C28: for a valid format string the analyzer yields one parameter slot
\* for every * and one for every conversion that is no %%, left to right:
\* DYNAMIC_WIDTH for a * in the width, DYNAMIC_PRECISION for a * in the
\* precision, for s STRING_WITH_DYNAMIC_PRECISION, STRING_WITH_NO_PRECISION
\* or STRING(cap) according to its precision, NON_STRING for any other
\* conversion; an index past the last slot yields INVALID, and
\* FormatParametersCount is the number of slots.
C28_OneSlotPerStarAndConversion ==
    ValidFormat =>
        /\ Defined("num_parameters") => analysis.num_parameters = Len(Slots)
        /\ Defined("param_types") => analysis.param_types = Slots
        /\ Called("FormatParametersCount") =>
              analysis.call.result = Returned(Len(Slots))
        /\ Called("GetParamInfo") =>
              analysis.call.result
                 = Returned(IF analysis.call.num < Len(Slots)
                               THEN Slots[analysis.call.num + 1]
                               ELSE INVALID)

\* "%*.*s" has been analyzed and GetParamInfo asked for a fourth slot
C28_Witness ==
    /\ format_str = <<37, 42, 46, 42, 115, 0>>
    /\ analysis.step = "Log"
    /\ analysis.param_types
          = <<DYNAMIC_WIDTH, DYNAMIC_PRECISION, STRING_WITH_DYNAMIC_PRECISION>>
    /\ Called("GetParamInfo")
    /\ analysis.call.num = 3
    /\ analysis.call.result = Returned(INVALID)


(***************************************************************************)
(* The conversion types of a call site.                                    *)
(***************************************************************************)
\* the cell of the table of conversion types for a length modifier and a
\* conversion letter, "-" where the table has none
TableType(modifier, letter) ==
    IF letter \in {100, 105}
       THEN CASE modifier = <<>> -> "int_t"
              [] modifier = <<104, 104>> -> "signed_char_t"
              [] modifier = <<104>> -> "short_int_t"
              [] modifier = <<108>> -> "long_int_t"
              [] modifier = <<108, 108>> -> "long_long_int_t"
              [] modifier = <<106>> -> "intmax_t_t"
              [] modifier = <<122>> -> "size_t_t"
              [] modifier = <<116>> -> "ptrdiff_t_t"
              [] OTHER -> "-"
    ELSE IF letter \in {117, 111, 120, 88}
       THEN CASE modifier = <<>> -> "unsigned_int_t"
              [] modifier = <<104, 104>> -> "unsigned_char_t"
              [] modifier = <<104>> -> "unsigned_short_int_t"
              [] modifier = <<108>> -> "unsigned_long_int_t"
              [] modifier = <<108, 108>> -> "unsigned_long_long_int_t"
              [] modifier = <<106>> -> "uintmax_t_t"
              [] modifier = <<122>> -> "size_t_t"
              [] modifier = <<116>> -> "ptrdiff_t_t"
              [] OTHER -> "-"
    ELSE IF letter \in {102, 70, 101, 69, 103, 71, 97, 65}
       THEN CASE modifier = <<>> -> "double_t"
              [] modifier = <<108>> -> "double_t"
              [] modifier = <<76>> -> "long_double_t"
              [] OTHER -> "-"
    ELSE IF letter = 99
       THEN CASE modifier = <<>> -> "int_t"
              [] modifier = <<108>> -> "wint_t_t"
              [] OTHER -> "-"
    ELSE IF letter = 115
       THEN CASE modifier = <<>> -> "const_char_ptr_t"
              [] modifier = <<108>> -> "const_wchar_t_ptr_t"
              [] OTHER -> "-"
    ELSE IF letter = 112 /\ modifier = <<>> THEN "const_void_ptr_t"
    ELSE "-"

\* type is the one the table has for the k-th specifier, if it has one
AsInTable(k, type) ==
    LET cell == TableType(Specifiers[k].modifier, Specifiers[k].letter)
    IN cell # "-" => type = cell

\* C29: for the k-th conversion specifier of a format string
\* GetConversionType returns the type that the table gives for its length
\* modifier and conversion letter, whatever the length modifiers of the
\* specifiers before it, and NONE when the string has no k-th specifier.
C29_TypeByLengthAndLetter ==
    ValidFormat =>
        /\ Defined("format_fragments") =>
              /\ Len(analysis.format_fragments) = Len(Specifiers)
              /\ \A k \in DOMAIN Specifiers :
                    AsInTable(k, analysis.format_fragments[k].conversion_type_)
        /\ Called("GetConversionType") =>
              /\ ~analysis.call.result.thrown
              /\ IF analysis.call.num < Len(Specifiers)
                    THEN AsInTable(analysis.call.num + 1,
                                   analysis.call.result.value)
                    ELSE analysis.call.result.value = "NONE"

\* "%hhd%ld" has been analyzed and GetConversionType asked for the second
\* specifier
C29_Witness ==
    /\ format_str = <<37, 104, 104, 100, 37, 108, 100, 0>>
    /\ analysis.step = "Log"
    /\ Called("GetConversionType")
    /\ analysis.call.num = 1
    /\ analysis.call.result.value = "long_int_t"


(***************************************************************************)
(* Format strings that are no valid format: %n, an unknown conversion      *)
(* letter, a % at the end.                                                 *)
(***************************************************************************)
\* C30: every analyzer function rejects with a parse error a format string
\* that contains %n, an unknown conversion letter after % or a % truncated
\* at the end of the string, and no descriptor data is produced for it.
C30_EveryFunctionRejects ==
    ~ValidFormat =>
        /\ analysis.step \in {"num_parameters", "rejected"}
        /\ ~Called("none") => analysis.call.result.thrown

\* the index from which on function rejects format_str, the last of its
\* specifiers being the one that is no valid specifier
FirstRejected(function) ==
    LET before == SubSeq(Specifiers, 1, Len(Specifiers) - 1)
        last == Specifiers[Len(Specifiers)]
    IN CASE function = "GetParamInfo" ->
               Len(SlotsOf(before)) + Len(Stars(last))
         [] function = "GetConversionType" -> Len(before)
         [] function = "GetConversionSpecifierChar" ->
               SumOfLengthsPlusOne(before) + last.length - 1
         [] function = "GetConversionSpecifierPosition" -> Len(before) + 1

\* C30, as the code has it: FormatParametersCount,
\* ConversionSpecifiersCount and SizeConversionStorageNeeds reject every
\* such format string, so that the macro defines nothing for the call
\* site; a function that takes an index rejects it when its walk comes to
\* the conversion char that is no valid one, and returns a value when the
\* index asks for something in front of it.  A valid string is never
\* rejected.
C30_WalkToTheSpecifierRejects ==
    IF ValidFormat
       THEN /\ analysis.step # "rejected"
            /\ ~analysis.call.result.thrown
       ELSE /\ analysis.step \in {"num_parameters", "rejected"}
            /\ analysis.call.function \in WholeStringFunctions =>
                  analysis.call.result.thrown
            /\ analysis.call.function \in IndexedFunctions =>
                  (analysis.call.result.thrown
                      <=> analysis.call.num
                             >= FirstRejected(analysis.call.function))

\* "%d%n" has been rejected by the macro, and GetParamInfo has returned
\* the type of its first parameter
C30_Witness ==
    /\ format_str = <<37, 100, 37, 110, 0>>
    /\ analysis.step = "rejected"
    /\ Called("GetParamInfo")
    /\ analysis.call.num = 0
    /\ analysis.call.result = Returned(NON_STRING)


(***************************************************************************)
(* SpecPeek: the staging buffer of Spec whose consumer calls peek and      *)
(* consume as the tests of tests/buffers_test.cc do: after a peek it peeks *)
(* again or consumes all the bytes the peek has reported.  obs keeps what  *)
(* the buffer held when peek was called and what the peek before returned. *)
(***************************************************************************)
\* what a peek is called on: the number of records committed so far and
\* the offsets of the bytes committed and not consumed
BufferAtCall == [committed |-> Len(committed), unconsumed |-> unconsumed]

NoPeek ==
    [called |-> FALSE, read_pos |-> 0, peek_bytes |-> 0, consumed |-> FALSE,
     at_call |-> [committed |-> 0, unconsumed |-> {}]]

InitPeek ==
    /\ BufInit
    /\ NoFormat
    /\ threads = <<>>
    /\ log_ids = <<>>
    /\ heap = <<>>
    /\ logger = <<>>
    /\ halves = <<>>
    /\ double_buffer_size = 0
    /\ ring = <<>>
    /\ main = "none"
    /\ la = <<>>
    /\ loop = <<>>
    /\ obs = [at_call |-> [committed |-> 0, unconsumed |-> {}],
              last |-> NoPeek]

\* peek: char* cached_producer_pos = producer_pos_;
PeekCall ==
    /\ cpc = "idle"
    /\ cached_producer_pos' = producer_pos
    /\ cpc' = IF cached_producer_pos' < consumer_pos THEN "peek_end"
                                                     ELSE "peek_ret"
    /\ obs' = [obs EXCEPT !.at_call = BufferAtCall]
    /\ UNCHANGED <<producerSide, consumer_pos, peek_bytes, read_pos,
                   bytes_consumed, info_size, consumed, unconsumed>>
    /\ UNCHANGED <<threads, log_ids, heap, logger, halves,
                   double_buffer_size, ring, main, la, loop, fmtVars>>

\* what the peek that has returned leaves for the next one to compare with
PeekReturned(was_consumed) ==
    [called |-> TRUE, read_pos |-> read_pos, peek_bytes |-> peek_bytes,
     consumed |-> was_consumed, at_call |-> obs.at_call]

\* the caller goes on without consuming
PeekAgain ==
    /\ cpc = "peeked"
    /\ cpc' = "idle"
    /\ obs' = [obs EXCEPT !.last = PeekReturned(FALSE)]
    /\ UNCHANGED <<producerSide, consumer_pos, cached_producer_pos,
                   peek_bytes, read_pos, bytes_consumed, info_size, consumed,
                   unconsumed>>
    /\ UNCHANGED <<threads, log_ids, heap, logger, halves,
                   double_buffer_size, ring, main, la, loop, fmtVars>>

\* consume(available_bytes): consumer_pos_ += num_bytes;
ConsumeAll ==
    /\ cpc = "peeked"
    /\ peek_bytes > 0
    /\ consumer_pos' = consumer_pos + peek_bytes
    /\ unconsumed' = unconsumed \ Region(consumer_pos, peek_bytes)
    /\ cpc' = "idle"
    /\ obs' = [obs EXCEPT !.last = PeekReturned(TRUE)]
    /\ UNCHANGED <<producerSide, cached_producer_pos, peek_bytes, read_pos,
                   bytes_consumed, info_size, consumed>>
    /\ UNCHANGED <<threads, log_ids, heap, logger, halves,
                   double_buffer_size, ring, main, la, loop, fmtVars>>

NextPeek ==
    \/ ReserveProducerSpace
    \/ ReserveLoop
    \/ ReserveBranch
    \/ ReservePublishEnd
    \/ ReserveWrap
    \/ ReserveElse
    \/ ReserveNull
    \/ WriteRecord
    \/ FinishReservation
    \/ DestructGuardEnd
    \/ PeekCall
    \/ PeekEndOfData
    \/ PeekReset
    \/ PeekReturn
    \/ PeekAgain
    \/ ConsumeAll

SpecPeek == InitPeek /\ [][NextPeek]_vars

\* at_call is a buffer that holds the record committed last and nothing
\* else: the record was committed into an empty buffer
HoldsLastRecordOnly(at_call) ==
    /\ at_call.committed > 0
    /\ at_call.unconsumed # {}
    /\ Cardinality(at_call.unconsumed) = Len(committed[at_call.committed])

\* nothing was committed between the call of the peek before and the call
\* of the peek that has returned
NothingCommittedSince ==
    obs.last.called /\ obs.last.at_call.committed = obs.at_call.committed

\* C31: after the producer has committed n bytes into an empty staging
\* buffer, peek reports exactly those n bytes at the read position; a peek
\* repeated with no consume in between reports the same position and the
\* same number of bytes; and once all the bytes reported have been
\* consumed, peek reports 0 bytes.
C31_PeekReportsTheCommittedBytes ==
    cpc = "peeked" =>
        /\ HoldsLastRecordOnly(obs.at_call) =>
              LET record == committed[obs.at_call.committed]
              IN /\ peek_bytes = Len(record)
                 /\ ReadBytes(read_pos, Len(record)) = record
        /\ ( /\ NothingCommittedSince
             /\ ~obs.last.consumed
             /\ HoldsLastRecordOnly(obs.last.at_call) ) =>
              /\ read_pos = obs.last.read_pos
              /\ peek_bytes = obs.last.peek_bytes
        /\ ( /\ NothingCommittedSince
             /\ obs.last.consumed
             /\ HoldsLastRecordOnly(obs.last.at_call) ) => peek_bytes = 0

(***************************************************************************)
(* Claims about the roll-back of an expansion that does not fit, checked   *)
(* under SpecAsm.                                                          *)
(***************************************************************************)
\* the place of the assembler in the body of its record, with the number of
\* bytes counted for the record so far
BodyPlace(a, count) ==
    [conversion_index |-> a.conversion_index,
     parameter_index |-> a.parameter_index,
     args_read_pos |-> a.args_read_pos,
     format_index |-> a.format_index,
     count |-> count]

\* the places between the pieces (literal run or specifier) of the body,
\* when nothing interrupts the walk of write()
RECURSIVE PlacesFrom(_)
PlacesFrom(c) ==
    {BodyPlace(c.la, Len(c.chunk))}
    \cup (IF c.returned \/ ~(c.la.format_index < c.la.static_log_info.format_len_)
             THEN {}
             ELSE Then(BodyStep(c), PlacesFrom))

ReferencePlaces ==
    PlacesFrom(Then(Then(Then(Then(
        WriteEntry(LoadLogInfo(SetBuffer(NewLogAssembler, 1, ReferenceRegion),
                               CallSites[threads[1].cs], obs.committed[1][1],
                               0), <<>>),
        TimestampPhase), FilenamePhase), SeverityPhase), ProducerIdPhase))

\* the piece at format_index is a conversion specifier
AtSpecifier(a) ==
    /\ a.is_producer_id_writed
    /\ a.format_index < a.static_log_info.format_len_
    /\ a.conversion_index < a.static_log_info.num_conversions_
    /\ FragmentAt(a).format_pos_ = a.format_index

BetweenWrites ==
    /\ loop.pc \in {"write", "swap"}
    /\ obs.last_write # NullInfo
    /\ HasRemainingData(la)

\* C32: when the expansion of a specifier does not fit, write() returns
\* with conversion_index_, parameter_index_ and args_read_pos_ as before the
\* attempt (the slots of a dynamic width and precision included), with
\* format_index_ and the count of written bytes untouched and with the
\* output marked full; and the write() on the fresh region installed next
\* expands that same specifier, once.
C32_FailedExpansionIsRolledBackAndRetried ==
    (BetweenWrites /\ la.is_producer_id_writed) =>
        /\ BodyPlace(la, Len(Emitted)) \in ReferencePlaces
        /\ GetWritedBytes(la) = Len(obs.written_since_swap)
        /\ (obs.last_write.exhausted /\ GetWritedBytes(la) > 0)
              => IsBufferFull(la)
        /\ (AtSpecifier(la) /\ GetWritedBytes(la) = obs.last_write.result)
              => obs.last_write.result > 0

\* an expansion did not fit and a fresh region was installed for it
C32_Witness ==
    /\ loop.pc = "write"
    /\ obs.last_write # NullInfo
    /\ obs.last_write.exhausted
    /\ AtSpecifier(la)
    /\ GetWritedBytes(la) = 0
    /\ ParamTypeAt(la) = DYNAMIC_PRECISION

\* the piece at format_index is a run of literal chars of the format string
AtLiteralRun(a) ==
    /\ a.is_producer_id_writed
    /\ a.format_index < a.static_log_info.format_len_
    /\ ~AtSpecifier(a)

\* C33: a prefix phase, a run of literal chars and the trailer are each
\* written whole or not at all: between two calls of write() the bytes
\* counted for the record are exactly the complete prefix phases, followed
\* in the body by whole pieces up to format_index_, the write position
\* stands at the written count, and when such a piece did not fit the
\* output is marked full.
C33_StringPiecesAreWrittenWholeOrNotAtAll ==
    BetweenWrites =>
        /\ la.write_pos.off = GetWritedBytes(la)
        /\ GetWritedBytes(la) = Len(obs.written_since_swap)
        /\ IsPrefix(Emitted, ReferenceText)
        /\ IF la.is_producer_id_writed
              THEN \E place \in ReferencePlaces :
                      /\ place.format_index = la.format_index
                      /\ place.count = Len(Emitted)
              ELSE /\ Emitted = CompletedPrefix(la)
                   /\ la.format_index = 0
        /\ (obs.last_write.exhausted /\ loop.pc = "swap") => IsBufferFull(la)

\* a run of literal chars did not fit into the rest of the region
C33_Witness ==
    /\ BetweenWrites
    /\ loop.pc = "swap"
    /\ obs.last_write.exhausted
    /\ AtLiteralRun(la)

(***************************************************************************)
(* Claims about a reservation that fails, checked under Spec.              *)
(***************************************************************************)
\* the bytes the consumer obtains from peek and consume when the producer
\* commits nothing more: those up to end_of_data_ and then those in front
\* of producer_pos_ when the producer has wrapped, else those up to
\* producer_pos_ (buffers.cc:16-30); size is the count the first peek gives
ConsumerView ==
    IF producer_pos < consumer_pos
       THEN LET n == SizeSub(end_of_data, consumer_pos)
            IN [size |-> n,
                bytes |-> ReadBytes(consumer_pos, Min(n, Capacity))
                          \o ReadBytes(0, producer_pos)]
       ELSE [size |-> producer_pos - consumer_pos,
             bytes |-> ReadBytes(consumer_pos, producer_pos - consumer_pos)]

\* the producer is in the loop of a reserveProducerSpace(n, false)
InNonBlockingLoop ==
    /\ ~blocking
    /\ ppc \in {"loop", "branch", "eod", "wrap", "else", "null"}

\* C34: no step of a non-blocking reservation before its return, and so no
\* reservation that returns null, changes what the consumer obtains from
\* the peek and consume calls that follow, also not the step that publishes
\* end_of_data_ nor the one that wraps producer_pos_.
C34_FailedReservationLeavesConsumerView ==
    [][(InNonBlockingLoop /\ ppc' # ppc) => ConsumerView' = ConsumerView]_vars

\* a reservation has returned null after it published end_of_data_ and
\* wrapped producer_pos_, with committed bytes still to consume
C34_Witness ==
    /\ handed_null
    /\ ppc = "idle"
    /\ ~blocking
    /\ producer_pos = 0
    /\ end_of_data < Capacity
    /\ consumer_pos > 0
    /\ unconsumed # {}

(***************************************************************************)
(* SpecRegistry: the producer threads of SpecLog, registering their call   *)
(* sites statement by statement, together with the consumer thread and its *)
(* shadow copy of the registry.                                            *)
(***************************************************************************)
NextRegistry ==
    \/ \E t \in Threads : LogFilter(t)
    \/ \E t \in Threads : LogCheckId(t)
    \/ \E t \in Threads : RegisterLogInfo(t)
    \/ \E t \in Threads : EnsureBufferNew(t)
    \/ \E t \in Threads : EnsureBufferPush(t)
    \/ \E t \in Threads : LogStore(t)
    \/ ConsumerStart
    \/ ConsumerWhile
    \/ ConsumerFor
    \/ ConsumerRecord
    \/ ConsumerWrite
    \/ ConsumerSwap
    \/ ConsumerPassEnd
    \/ KernelComplete

SpecRegistry == InitLog /\ [][NextRegistry]_vars

\* the consumer has loaded the record at its read position
DescriptorLoaded ==
    /\ loop.pc \in {"write", "swap"}
    /\ loop.dynamic_log_info # NullInfo

\* C35: the shadow copy is always a prefix of registered_info_; and when
\* the consumer has loaded a committed record, after the one refresh it
\* makes at most, the record's log_id is an index into the shadow copy and
\* the entry there, which the assembler was given, is the descriptor of the
\* call site that holds this log_id, the one that produced the record.
C35_ShadowHoldsTheDescriptor ==
    /\ IsPrefix(logger.shadow_registered_info, logger.registered_info)
    /\ DescriptorLoaded =>
          LET id == loop.dynamic_log_info.log_id_
          IN /\ id >= 0
             /\ id < Len(logger.shadow_registered_info)
             /\ \E cs \in 1..Len(CallSites) :
                   /\ log_ids[cs] = id
                   /\ logger.shadow_registered_info[id + 1] = cs
                   /\ la.static_log_info = CallSites[cs]

\* the consumer has loaded the record of the call site registered second,
\* which it found only after a refresh of a shadow copy that held the first
C35_Witness ==
    /\ DescriptorLoaded
    /\ loop.dynamic_log_info.log_id_ = 1
    /\ Len(logger.shadow_registered_info) = 2
    /\ Len(obs.loaded[1]) + Len(obs.loaded[2]) = 2

(***************************************************************************)
(* Claims about the submission of what was assembled, checked under the    *)
(* fair specifications.                                                    *)
(***************************************************************************)
\* the bytes the assembler has counted in the active half since the last
\* swap: they are handed to submitLog by the next swap
Unsubmitted == obs.written_since_swap

\* C36: every byte the assembler has written is eventually submitted:
\* bytes counted in the active half do not stay there, the consumer comes
\* to the swap at the end of its pass (or an earlier one) and hands them to
\* submitLog.
C36_WrittenBytesAreSubmitted ==
    (Unsubmitted # <<>>)
        ~> (Unsubmitted = <<>> /\ obs.last_swap # NullInfo
            /\ obs.last_swap.submitted # <<>>)

\* C39: whenever write() has returned while the record still has remaining
\* data, isBufferFull() is true (so that the loop of the consumer around
\* write() swaps and cannot go round for ever), also when a conversion of
\* an argument that is no string formats to zero bytes.
C39_ReturnWithRemainingDataMeansFull ==
    BetweenWrites => IsBufferFull(la)

(***************************************************************************)
(* Claims about the positions the consumer reads at, checked under Spec.   *)
(***************************************************************************)
\* the n bytes at pos are whole committed records, one after the other,
\* each with its header first and as long as its info_size_ says
RECURSIVE WholeRecords(_, _)
WholeRecords(pos, n) ==
    \/ n = 0
    \/ /\ n > 0
       /\ n <= Capacity
       /\ pos + n <= Capacity
       /\ LET header == storage[pos]
              k == header[1]
              size == header[3]
          IN /\ header[2] = 0
             /\ k \in 1..Len(committed)
             /\ size > 0
             /\ size <= n
             /\ ReadBytes(pos, size) = committed[k]
             /\ WholeRecords(pos + size, n - size)

\* C37: every position at which the consumer decodes a header is the start
\* of a whole committed record: the count peek returns is a sum of whole
\* record sizes, the consumer advances by the info_size_ of the record it
\* has read, and what it reads is neither a partly written record nor
\* bytes outside the data of the buffer.
C37_ConsumerReadsWholeRecords ==
    /\ cpc = "peeked" => WholeRecords(read_pos, peek_bytes)
    /\ (cpc = "record" /\ bytes_consumed < peek_bytes)
          => WholeRecords(read_pos, peek_bytes - bytes_consumed)
    /\ cpc = "consume"
          => /\ WholeRecords(read_pos, peek_bytes - bytes_consumed)
             /\ info_size = Len(consumed[Len(consumed)])
             /\ \E k \in 1..Len(committed) :
                   consumed[Len(consumed)] = committed[k]
    /\ cpc = "record" => bytes_consumed <= peek_bytes

\* C38: a reservation by a producer that has wrapped and stands behind the
\* consumer, when its cached available_bytes_ does not do, takes for
\* available_bytes_ the distance from producer_pos_ to the consumer
\* position it has just read; so a non-blocking reservation of n bytes
\* returns null only when the free bytes in front of producer_pos_ are n or
\* fewer.
C38_NullOnlyWhenNoRoomInFront ==
    (ppc = "null" /\ cached_consumer_pos > producer_pos) =>
        /\ available_bytes = SizeSub(cached_consumer_pos, producer_pos)
        /\ SizeSub(cached_consumer_pos, producer_pos) <= num_bytes



(***************************************************************************)
(* SpecStatics: the Logger of a program that logs at f.c:51 and then at    *)
(* f.c:50, two call sites of the one instantiation                         *)
(* olog::Log<5, 2, 2, const char*, int>, so that their descriptors point   *)
(* to the same static param_sizes array.                                   *)
(***************************************************************************)
\* the calls of the program, in program order
StaticsProgram ==
    << <<10, << <<4660>>, <<7>> >> >>, <<9, << <<120, 121>>, <<7>> >> >> >>

\* Log() up to ReserveAlloc at the next call site of the program: the
\* severity filter passes; for an unregistered call site GetParamSizes fills
\* the static array (olog.h:33-34) and registerLogInfoInternal assigns the id
LogInOrder(t) ==
    /\ threads[t].pc = "idle"
    /\ obs.logs < Len(StaticsProgram)
    /\ \E call \in CallsAt({StaticsProgram[obs.logs + 1]}) :
         LET cs == call[1]
             registers == log_ids[cs] = UNREGISTERED_LOG_ID
         IN /\ threads' = [threads EXCEPT
                             ![t].pc = IF threads[t].staging_buffer = 0
                                          THEN "alloc_id" ELSE "reserve",
                             ![t].cs = cs,
                             ![t].args = call[2],
                             ![t].arg_sizes = call[3]]
            /\ log_ids' = IF registers
                             THEN [log_ids EXCEPT
                                     ![cs] = Len(logger.registered_info)]
                             ELSE log_ids
            /\ param_sizes' = IF registers
                                 THEN WriteParamSizes(param_sizes, cs)
                                 ELSE param_sizes
            /\ logger' = IF registers
                            THEN [logger EXCEPT
                                    !.registered_info = Append(@, cs)]
                            ELSE logger
    /\ obs' = [obs EXCEPT !.logs = @ + 1]
    /\ UNCHANGED <<bufVars, format_str, analysis, heap, halves,
                   double_buffer_size, ring, main, la, loop>>

NextStatics ==
    \/ \E t \in Threads : LogInOrder(t)
    \/ \E t \in Threads : EnsureBufferNew(t)
    \/ \E t \in Threads : EnsureBufferPush(t)
    \/ \E t \in Threads : LogStore(t)
    \/ ConsumerStart
    \/ ConsumerWhile
    \/ ConsumerFor
    \/ ConsumerRecord
    \/ ConsumerWrite
    \/ ConsumerSwap
    \/ ConsumerPassEnd
    \/ KernelComplete

SpecStatics == InitLogger /\ [][NextStatics]_vars

\* the StaticLogInfo the consumer reads for call site cs: the fields of the
\* descriptor, and behind param_sizes_ the array it points to
DescriptorRead(cs) ==
    [CallSites[cs] EXCEPT !.param_sizes_ = param_sizes[@]]

Registered(cs) == log_ids[cs] # UNREGISTERED_LOG_ID

\* C40: once a call site is registered, no step changes any field of the
\* descriptor the consumer reads for its log_id, param_sizes included,
\* whatever call sites are first invoked later.
C40_RegisteredDescriptorNeverChanges ==
    [][\A cs \in 1..Len(CallSites) :
         Registered(cs) => DescriptorRead(cs)' = DescriptorRead(cs)]_vars

\* both call sites of the instantiation are registered and the record of
\* the first one has been assembled
C40_Witness ==
    /\ Registered(9)
    /\ Registered(10)
    /\ obs.decoded # <<>>

=============================================================================
